---- MODULE Spec2Model ----
(***************************************************************************)
(* Authentication state machine of @mssfoobar/auth-sdk: the cookie-backed  *)
(* authenticator (core/auth.ts) and the store-backed authenticator         *)
(* (core/sds.ts), with the token, OIDC and configuration helpers they use, *)
(* the store helpers of core/sds.ts and the login, logout and refresh      *)
(* routes of the SvelteKit adapter.                                        *)
(*                                                                         *)
(* One call of a handler is a sequence of steps separated by its awaits:   *)
(* the synchronous prefix up to the first provider or store call, then one *)
(* step per provider / store response.                                     *)
(***************************************************************************)
EXTENDS Naturals, Sequences, FiniteSets, TLC

VARIABLES
  config,        \* deployment configuration: strategy, origin, cookie config
  handler,       \* the function serving the request in progress ("" when idle)
  hook,          \* what the hook's handle did for the request, in order
  par,           \* two authenticate calls in flight at once, each with its own adapter
  pure,          \* a pure helper applied to an input: function, input, output
  browser,       \* one browser over several requests: its cookie jar and what it did
  pc,            \* position of the call in progress
  cookies,       \* request cookies as seen through the CookieAdapter (name -> value)
  url,           \* request URL
  ops,           \* cookie operations (set / delete) issued by the call, in order
  calls,         \* provider and store calls issued by the call, in order
  result,        \* what the call returned or threw
  codeVerifier,  \* local: PKCE verifier read from the cookie or from the store
  tokenSet,      \* local: token set obtained from refresh or code exchange
  replies,       \* the answers to those calls, in the same order
  store          \* session data store: temp sessions and auth sessions

\* the state of the specifications that run beside the request handlers
aside == <<par, pure, browser>>

vars == <<config, handler, hook, par, pure, browser, pc, cookies, url, ops, calls, replies, result, codeVerifier,
          tokenSet, store>>

(***************************************************************************)
(* Values                                                                  *)
(***************************************************************************)

\* JavaScript undefined for an optional string
Absent == "undefined"

\* JavaScript truthiness of an optional string: undefined and "" are falsy
Truthy(s) == s # Absent /\ s # ""

\* an optional number or boolean is <<>> (undefined) or <<v>>
NoNumber == <<>>

\* JavaScript truthiness of an optional number: undefined and 0 are falsy
TruthyNumber(n) == n # NoNumber /\ n[1] # 0

\* bound on the number of auth sessions the store holds
MaxAuthSessions == 1

\* bound on the number of temp sessions the store holds
MaxTempSessions == 1

\* variant: the seven-day context-cookie age is used for the refresh token
REFRESH_TOKEN_EXPIRY_sevenDays == 60 * 60 * 24 * 7

REFRESH_TOKEN_EXPIRY == 60 * 60 * 24 * 365

(***************************************************************************)
(* core/config.ts                                                          *)
(***************************************************************************)

\* variant: the two session ids of the store strategy share one cookie
getCookieNames_oneSessionId(prefix) ==
  [ accessToken   |-> prefix \o "_access_token",
    refreshToken  |-> prefix \o "_refresh_token",
    codeVerifier  |-> prefix \o "_code_verifier",
    tempSessionId |-> prefix \o "_session_id",
    authSessionId |-> prefix \o "_session_id" ]

getCookieNames(prefix) ==
  [ accessToken   |-> prefix \o "_access_token",
    refreshToken  |-> prefix \o "_refresh_token",
    codeVerifier  |-> prefix \o "_code_verifier",
    tempSessionId |-> prefix \o "_temp_session_id",
    authSessionId |-> prefix \o "_auth_session_id" ]

\* origin.toLowerCase().startsWith("https://"); an origin is scheme \o host
\* and is kept as the pair of its two parts
IsHttps(origin) == origin.scheme \in {"https://", "HTTPS://"}

OriginString(origin) == origin.scheme \o origin.host

\* variant: a secure field of the cookie configuration overrides the origin
buildCookieOptions_configuredSecure(cookieConfig, origin) ==
  [ domain   |-> cookieConfig.domain,
    path     |-> IF cookieConfig.path = Absent THEN "/" ELSE cookieConfig.path,
    secure   |-> IF cookieConfig.secure = <<>> THEN IsHttps(origin)
                 ELSE cookieConfig.secure[1],
    httpOnly |-> IF cookieConfig.httpOnly = <<>> THEN TRUE ELSE cookieConfig.httpOnly[1],
    sameSite |-> IF cookieConfig.sameSite = Absent THEN "lax" ELSE cookieConfig.sameSite,
    maxAge   |-> NoNumber ]

buildCookieOptions(cookieConfig, origin) ==
  [ domain   |-> cookieConfig.domain,
    path     |-> IF cookieConfig.path = Absent THEN "/" ELSE cookieConfig.path,
    secure   |-> IsHttps(origin),
    httpOnly |-> IF cookieConfig.httpOnly = <<>> THEN TRUE ELSE cookieConfig.httpOnly[1],
    sameSite |-> IF cookieConfig.sameSite = Absent THEN "lax" ELSE cookieConfig.sameSite,
    maxAge   |-> NoNumber ]

withExpiry(options, maxAge) == [options EXCEPT !.maxAge = <<maxAge>>]

\* variant: only an absent key counts as missing, an empty one does not
validateAuthConfig_absentOnly(partial) ==
  (IF partial.issuerUrl = Absent THEN <<"issuerUrl">> ELSE << >>)
    \o (IF partial.clientId = Absent THEN <<"clientId">> ELSE << >>)
    \o (IF partial.origin = Absent THEN <<"origin">> ELSE << >>)

\* the missing keys, pushed in the order issuerUrl, clientId, origin
validateAuthConfig(partial) ==
  (IF ~Truthy(partial.issuerUrl) THEN <<"issuerUrl">> ELSE << >>)
    \o (IF ~Truthy(partial.clientId) THEN <<"clientId">> ELSE << >>)
    \o (IF ~Truthy(partial.origin) THEN <<"origin">> ELSE << >>)

cookieNames == getCookieNames(config.cookie.prefix)

cookieOptions == buildCookieOptions(config.cookie, config.origin)

(***************************************************************************)
(* CookieAdapter (core/types.ts): get reads the request cookies, set and   *)
(* delete are recorded in the order they are issued.                       *)
(***************************************************************************)

CookieGet(name) == IF name \in DOMAIN cookies THEN cookies[name] ELSE Absent

CookieSet(o, name, value, options) ==
  Append(o, [op |-> "set", name |-> name, value |-> value, options |-> options])

CookieDelete(o, name, options) ==
  Append(o, [op |-> "delete", name |-> name, value |-> Absent, options |-> options])

(***************************************************************************)
(* core/tokens.ts: decoding.  A token is a string; TokenParts is its split *)
(* on "." and PayloadJson the base64url + JSON decoding of a segment.      *)
(***************************************************************************)

NoClaims == [sub |-> Absent]

TokenParts(token) ==
  CASE token = "hdr.u1.sig"    -> <<"hdr", "u1", "sig">>
    [] token = "hdr.u2.sig"    -> <<"hdr", "u2", "sig">>
    [] token = "hdr.nosub.sig" -> <<"hdr", "nosub", "sig">>
    [] token = "hdr.%%.sig"    -> <<"hdr", "%%", "sig">>
    [] token = ""              -> <<"">>
    [] OTHER                   -> <<token>>

PayloadJson(segment) ==
  CASE segment = "u1"    -> [ok |-> TRUE, claims |-> [sub |-> "user-1"]]
    [] segment = "u2"    -> [ok |-> TRUE, claims |-> [sub |-> "user-2"]]
    [] segment = "nosub" -> [ok |-> TRUE, claims |-> [sub |-> Absent]]
    [] OTHER             -> [ok |-> FALSE, claims |-> NoClaims]

\* jwtDecode: throws (ok = FALSE) unless the token has a second segment that
\* decodes to JSON
jwtDecode(token) ==
  IF Len(TokenParts(token)) < 2
  THEN [ok |-> FALSE, claims |-> NoClaims]
  ELSE PayloadJson(TokenParts(token)[2])

decodeAccessToken(accessToken) == jwtDecode(accessToken)

(***************************************************************************)
(* core/tokens.ts: the claim accessors.  Here an access token is its text  *)
(* together with the tenant and role claims its payload holds beside sub;  *)
(* an optional claim is << >> (undefined) or <<v>>.  An accessor gives     *)
(* what it returned, or that it threw.                                     *)
(***************************************************************************)

\* decodeAccessToken, read for the tenant and role claims
decodeTenantClaims(accessToken) ==
  [ok |-> decodeAccessToken(accessToken.text).ok, claims |-> accessToken.payload]

AccessorReturns(value) == [threw |-> FALSE, value |-> value]

AccessorThrows == [threw |-> TRUE, value |-> Absent]

\* Array.prototype.includes
Includes(array, element) == \E i \in 1..Len(array) : array[i] = element

\* variant: holding any role in the active tenant is enough
isTenantAdmin_anyRole(accessToken) ==
  LET decoded == decodeTenantClaims(accessToken)
      active  == decoded.claims.active_tenant
  IN  IF ~decoded.ok THEN AccessorReturns(FALSE)
      ELSE IF active = << >> THEN AccessorReturns(FALSE)
      ELSE IF active[1].roles = << >> THEN AccessorReturns(FALSE)
      ELSE AccessorReturns(active[1].roles[1] # << >>)

\* claims.active_tenant?.roles?.includes("tenant-admin") ?? false, and false
\* from the catch
isTenantAdmin(accessToken) ==
  LET decoded == decodeTenantClaims(accessToken)
      active  == decoded.claims.active_tenant
  IN  IF ~decoded.ok THEN AccessorReturns(FALSE)
      ELSE IF active = << >> THEN AccessorReturns(FALSE)
      ELSE IF active[1].roles = << >> THEN AccessorReturns(FALSE)
      ELSE AccessorReturns(Includes(active[1].roles[1], "tenant-admin"))

\* claims.all_tenants?.map(t => t.tenant_id).filter(id => id !== undefined) ?? []
getTenantIds(accessToken) ==
  LET decoded == decodeTenantClaims(accessToken)
      all     == decoded.claims.all_tenants
      ids(ts) == [i \in 1..Len(ts) |-> ts[i].tenant_id]
      Defined(id) == id # Absent
  IN  IF ~decoded.ok THEN AccessorReturns(<< >>)
      ELSE IF all = << >> THEN AccessorReturns(<< >>)
      ELSE AccessorReturns(SelectSeq(ids(all[1]), Defined))

\* claims.active_tenant?.tenant_id
getActiveTenantId(accessToken) ==
  LET decoded == decodeTenantClaims(accessToken)
      active  == decoded.claims.active_tenant
  IN  IF ~decoded.ok THEN AccessorReturns(Absent)
      ELSE IF active = << >> THEN AccessorReturns(Absent)
      ELSE AccessorReturns(active[1].tenant_id)

\* variant: the decode error is not caught
getRealmRoles_uncaught(accessToken) ==
  LET decoded == decodeTenantClaims(accessToken)
      realm   == decoded.claims.realm_access
  IN  IF ~decoded.ok THEN AccessorThrows
      ELSE IF realm = << >> THEN AccessorReturns(<< >>)
      ELSE IF realm[1].roles = << >> THEN AccessorReturns(<< >>)
      ELSE AccessorReturns(realm[1].roles[1])

\* claims.realm_access?.roles ?? []
getRealmRoles(accessToken) ==
  LET decoded == decodeTenantClaims(accessToken)
      realm   == decoded.claims.realm_access
  IN  IF ~decoded.ok THEN AccessorReturns(<< >>)
      ELSE IF realm = << >> THEN AccessorReturns(<< >>)
      ELSE IF realm[1].roles = << >> THEN AccessorReturns(<< >>)
      ELSE AccessorReturns(realm[1].roles[1])

\* getRealmRoles(accessToken).includes(role), outside any try
hasRealmRole(accessToken, role) ==
  LET roles == getRealmRoles(accessToken)
  IN  IF roles.threw THEN AccessorThrows
      ELSE AccessorReturns(Includes(roles.value, role))

(***************************************************************************)
(* core/oidc.ts                                                            *)
(***************************************************************************)

\* URL.search is kept as its pieces: <<>> or <<"?", k, "=", v, "&", k, "=", v, ...>>
RECURSIVE Concat(_)
Concat(parts) == IF parts = <<>> THEN "" ELSE Head(parts) \o Concat(Tail(parts))

\* URLSearchParams.has(name): some key of the query string equals name
SearchParamsHas(search, name) ==
  \E i \in 1..Len(search) : i % 4 = 2 /\ search[i] = name

\* variant: one of the two parameters is enough
isOidcCallback_either(u) ==
  SearchParamsHas(u.search, "session_state") \/ SearchParamsHas(u.search, "code")

isOidcCallback(u) ==
  SearchParamsHas(u.search, "session_state") /\ SearchParamsHas(u.search, "code")

(***************************************************************************)
(* Results and call records                                                *)
(***************************************************************************)

NoResult == [kind |-> "none", accessToken |-> Absent, claims |-> NoClaims, message |-> ""]

AuthResultSuccess(accessToken, claims) ==
  [kind |-> "Success", accessToken |-> accessToken, claims |-> claims, message |-> ""]

AuthResultFail == [kind |-> "Fail", accessToken |-> Absent, claims |-> NoClaims, message |-> ""]

Thrown(message) ==
  [kind |-> "Error", accessToken |-> Absent, claims |-> NoClaims, message |-> message]

\* json(null, {status, headers: {Location}}) of a route
Response(status, location) ==
  [kind |-> "Response", accessToken |-> Absent, claims |-> NoClaims,
   message |-> status \o " " \o location]

\* a Promise<void> that resolved
Returned == [kind |-> "Void", accessToken |-> Absent, claims |-> NoClaims, message |-> ""]

Call3(fn, a, b, c) == [fn |-> fn, a |-> a, b |-> b, c |-> c]

Call(fn, a, b) == Call3(fn, a, b, "")

\* the answer to a provider or store call: the promise resolved with a value
\* or a token set, or rejected with an error (err: its provider error code)
Resolved(value, tokens) ==
  [kind |-> "resolved", error |-> Absent, value |-> value, tokens |-> tokens]

Rejected(err) ==
  [kind |-> "rejected", error |-> err, value |-> Absent,
   tokens |-> [access_token |-> Absent, refresh_token |-> Absent, expires_in |-> NoNumber]]

NoTokenSet == [access_token |-> Absent, refresh_token |-> Absent, expires_in |-> NoNumber]

(***************************************************************************)
(* core/auth.ts: the cookie-backed authenticator.  The handlers take the   *)
(* cookie operations issued so far and give the outcome of the call:       *)
(* the operations issued, the result, and where the call stands.           *)
(***************************************************************************)

Outcome(o, r, p) == [ops |-> o, result |-> r, pc |-> p]

\* variant: only the token cookies are cleared
handleAuthFailure_tokensOnly(o) ==
  LET expiredOptions == withExpiry(cookieOptions, 0)
      o1 == CookieDelete(o,  cookieNames.accessToken,  expiredOptions)
      o2 == CookieDelete(o1, cookieNames.refreshToken, expiredOptions)
      o3 == CookieDelete(o2, cookieNames.codeVerifier, expiredOptions)
  IN  Outcome(o3, AuthResultFail, "done")

handleAuthFailure(o) ==
  LET expiredOptions == withExpiry(cookieOptions, 0)
      o1 == CookieDelete(o,  cookieNames.accessToken,   expiredOptions)
      o2 == CookieDelete(o1, cookieNames.refreshToken,  expiredOptions)
      o3 == CookieDelete(o2, cookieNames.codeVerifier,  expiredOptions)
      o4 == CookieDelete(o3, cookieNames.authSessionId, expiredOptions)
      o5 == CookieDelete(o4, cookieNames.tempSessionId, expiredOptions)
  IN  Outcome(o5, AuthResultFail, "done")

\* variant: the access-token cookie is written whether or not an expiry came
handleAuthSuccess_alwaysWritesAccess(o, accessToken, refreshToken, expiresIn) ==
  LET o1 == CookieSet(o, cookieNames.accessToken, accessToken,
                      IF TruthyNumber(expiresIn)
                      THEN withExpiry(cookieOptions, expiresIn[1]) ELSE cookieOptions)
      o2 == IF Truthy(refreshToken)
            THEN CookieSet(o1, cookieNames.refreshToken, refreshToken,
                           withExpiry(cookieOptions, REFRESH_TOKEN_EXPIRY))
            ELSE o1
      o3 == CookieDelete(o2, cookieNames.codeVerifier, withExpiry(cookieOptions, 0))
      d  == decodeAccessToken(accessToken)
  IN  IF d.ok
      THEN Outcome(o3, AuthResultSuccess(accessToken, d.claims), "done")
      ELSE Outcome(o3, Thrown("InvalidTokenError"), "thrown")

\* variant: the verifier cookie is left in place
handleAuthSuccess_keepsVerifier(o, accessToken, refreshToken, expiresIn) ==
  LET o1 == IF TruthyNumber(expiresIn)
            THEN CookieSet(o, cookieNames.accessToken, accessToken,
                           withExpiry(cookieOptions, expiresIn[1]))
            ELSE o
      o2 == IF Truthy(refreshToken)
            THEN CookieSet(o1, cookieNames.refreshToken, refreshToken,
                           withExpiry(cookieOptions, REFRESH_TOKEN_EXPIRY))
            ELSE o1
      d  == decodeAccessToken(accessToken)
  IN  IF d.ok
      THEN Outcome(o2, AuthResultSuccess(accessToken, d.claims), "done")
      ELSE Outcome(o2, Thrown("InvalidTokenError"), "thrown")

\* decodeAccessToken throws after the cookies were written
handleAuthSuccess(o, accessToken, refreshToken, expiresIn) ==
  LET o1 == IF TruthyNumber(expiresIn)
            THEN CookieSet(o, cookieNames.accessToken, accessToken,
                           withExpiry(cookieOptions, expiresIn[1]))
            ELSE o
      o2 == IF Truthy(refreshToken)
            THEN CookieSet(o1, cookieNames.refreshToken, refreshToken,
                           withExpiry(cookieOptions, REFRESH_TOKEN_EXPIRY))
            ELSE o1
      o3 == CookieDelete(o2, cookieNames.codeVerifier, withExpiry(cookieOptions, 0))
      d  == decodeAccessToken(accessToken)
  IN  IF d.ok
      THEN Outcome(o3, AuthResultSuccess(accessToken, d.claims), "done")
      ELSE Outcome(o3, Thrown("InvalidTokenError"), "thrown")

\* variant: the cookies are cleared before the fatal error is raised
OidcCallbackCatch_clearsThenRaises(o, err) ==
  IF err # "invalid_grant" /\ err = "unauthorized_client"
  THEN Outcome(handleAuthFailure(o).ops, Thrown("Invalid client credentials"), "thrown")
  ELSE handleAuthFailure(o)

\* variant: unauthorized_client is swallowed like every other error
OidcCallbackCatch_swallowsFatal(o, err) == handleAuthFailure(o)

\* the catch clause of handleOidcCallback; err is the provider error code of
\* the rejection (Absent when the error carries none)
OidcCallbackCatch(o, err) ==
  IF err # "invalid_grant" /\ err = "unauthorized_client"
  THEN Outcome(o, Thrown("Invalid client credentials"), "thrown")
  ELSE handleAuthFailure(o)

\* the try block of handleOidcCallback after exchangeCode resolved
OidcCallbackExchanged(o, tokens) ==
  LET r == handleAuthSuccess(o, tokens.access_token, tokens.refresh_token,
                             tokens.expires_in)
  IN  IF r.pc = "thrown" THEN OidcCallbackCatch(r.ops, Absent) ELSE r

\* variant: a failed refresh is raised instead of being turned into Fail
RefreshReturned_raises(o, newTokens) ==
  IF newTokens # NoTokenSet
  THEN handleAuthSuccess(o, newTokens.access_token, newTokens.refresh_token,
                         newTokens.expires_in)
  ELSE Outcome(o, Thrown("Token refresh failed"), "thrown")

\* doRefresh after refreshTokens returned; newTokens is NoTokenSet for undefined
RefreshReturned(o, newTokens) ==
  IF newTokens # NoTokenSet
  THEN handleAuthSuccess(o, newTokens.access_token, newTokens.refresh_token,
                         newTokens.expires_in)
  ELSE handleAuthFailure(o)

\* validateAccessToken before its await: the token decodes and carries a sub
ValidateReachesProvider(accessToken) ==
  jwtDecode(accessToken).ok /\ Truthy(jwtDecode(accessToken).claims.sub)

\* variant: the callback URL is built from the incoming request's origin
CallbackUrl_fromRequest(u) == u.origin \o u.pathname \o Concat(u.search)

\* new URL(origin + url.pathname + url.search)
CallbackUrl(u) == OriginString(config.origin) \o u.pathname \o Concat(u.search)

(***************************************************************************)
(* core/sds.ts: the store-backed authenticator                             *)
(***************************************************************************)

SDS_SESSION_KEYS == [CODE_VERIFIER |-> "code_verifier"]

\* variant: only the auth-session cookie is cleared
handleSdsAuthFailure_authOnly(o) ==
  LET expiredOptions == withExpiry(cookieOptions, 0)
      o1 == CookieDelete(o, cookieNames.authSessionId, expiredOptions)
  IN  Outcome(o1, AuthResultFail, "done")

\* variant: the store-backed failure path clears what the cookie-backed one clears
handleSdsAuthFailure_allFive(o) == handleAuthFailure(o)

handleSdsAuthFailure(o) ==
  LET expiredOptions == withExpiry(cookieOptions, 0)
      o1 == CookieDelete(o,  cookieNames.authSessionId, expiredOptions)
      o2 == CookieDelete(o1, cookieNames.tempSessionId, expiredOptions)
  IN  Outcome(o2, AuthResultFail, "done")

\* variant: the auth-session cookie is given the refresh-token lifetime
handleSdsAuthSuccess_expiring(o, accessToken, authSessionId) ==
  LET o1 == CookieSet(o, cookieNames.authSessionId, authSessionId,
                      withExpiry(cookieOptions, REFRESH_TOKEN_EXPIRY))
      o2 == CookieDelete(o1, cookieNames.tempSessionId, withExpiry(cookieOptions, 0))
      d  == decodeAccessToken(accessToken)
  IN  IF d.ok
      THEN Outcome(o2, AuthResultSuccess(accessToken, d.claims), "done")
      ELSE Outcome(o2, Thrown("InvalidTokenError"), "thrown")

handleSdsAuthSuccess(o, accessToken, authSessionId) ==
  LET o1 == CookieSet(o, cookieNames.authSessionId, authSessionId, cookieOptions)
      o2 == CookieDelete(o1, cookieNames.tempSessionId, withExpiry(cookieOptions, 0))
      d  == decodeAccessToken(accessToken)
  IN  IF d.ok
      THEN Outcome(o2, AuthResultSuccess(accessToken, d.claims), "done")
      ELSE Outcome(o2, Thrown("InvalidTokenError"), "thrown")

\* variant: invalid_grant is raised as well
SdsOidcCallbackCatch_raisesInvalidGrant(o, err) ==
  IF err = "invalid_grant" \/ err = "unauthorized_client"
  THEN Outcome(o, Thrown("Invalid client credentials"), "thrown")
  ELSE handleSdsAuthFailure(o)

\* the catch clause of handleSdsOidcCallback
SdsOidcCallbackCatch(o, err) ==
  IF err # "invalid_grant" /\ err = "unauthorized_client"
  THEN Outcome(o, Thrown("Invalid client credentials"), "thrown")
  ELSE handleSdsAuthFailure(o)

\* the try block of handleSdsOidcCallback after authSessionNew resolved
SdsSessionCreated(o, tokens, newAuthSessionId) ==
  LET r == handleSdsAuthSuccess(o, tokens.access_token, newAuthSessionId)
  IN  IF r.pc = "thrown" THEN SdsOidcCallbackCatch(r.ops, Absent) ELSE r

\* the try block of authenticateWithSds after authSessionGetAccessToken resolved;
\* its catch clause turns every error into the failure path
SdsSessionFound(o, accessToken, authSessionId) ==
  LET r == handleSdsAuthSuccess(o, accessToken, authSessionId)
  IN  IF r.pc = "thrown" THEN handleSdsAuthFailure(r.ops) ELSE r

(***************************************************************************)
(* The session data store (SdsClient).  Ids are issued by the store.       *)
(***************************************************************************)

AuthIdOf(n) == "as" \o ToString(n)

NewAuthSessionId ==
  AuthIdOf(CHOOSE n \in 1..(Cardinality(DOMAIN store.auth) + 1) :
             /\ AuthIdOf(n) \notin DOMAIN store.auth
             /\ \A m \in 1..(n - 1) : AuthIdOf(m) \in DOMAIN store.auth)

StoreAuthSessionNew(st, id, accessToken, refreshToken) ==
  [st EXCEPT !.auth = [k \in DOMAIN st.auth \cup {id} |->
      IF k = id THEN [access_token |-> accessToken, refresh_token |-> refreshToken]
      ELSE st.auth[k]]]

StoreAuthSessionDestroy(st, id) ==
  [st EXCEPT !.auth = [k \in DOMAIN st.auth \ {id} |-> st.auth[k]]]

TempIdOf(n) == "ts" \o ToString(n)

NewTempSessionId ==
  TempIdOf(CHOOSE n \in 1..(Cardinality(DOMAIN store.temp) + 1) :
             /\ TempIdOf(n) \notin DOMAIN store.temp
             /\ \A m \in 1..(n - 1) : TempIdOf(m) \in DOMAIN store.temp)

\* a temp session maps to the verifier kept under the key code_verifier,
\* Absent while the key is not set
StoreTempSessionNew(st, id) ==
  [st EXCEPT !.temp = [k \in DOMAIN st.temp \cup {id} |->
      IF k = id THEN Absent ELSE st.temp[k]]]

StoreTempSessionSet(st, id, value) ==
  [st EXCEPT !.temp = [k \in DOMAIN st.temp \cup {id} |->
      IF k = id THEN value ELSE st.temp[k]]]

(***************************************************************************)
(* Inputs                                                                  *)
(***************************************************************************)

Origins == { [scheme |-> "https://", host |-> "app.example"],
             [scheme |-> "http://",  host |-> "app.example"] }

CookieConfigs ==
  { [prefix |-> "aoh", domain |-> Absent, path |-> Absent, secure |-> <<>>,
     httpOnly |-> <<>>, sameSite |-> Absent] }

\* excludePaths is left undefined (<< >>) here; an optional list is << >> or <<list>>
Configs ==
  [strategy : {"cookie", "sds"}, origin : Origins, cookie : CookieConfigs,
   excludePaths : {<< >>}]

AccessCookieValues  == {Absent, "hdr.u1.sig", "hdr.nosub.sig", "invalid"}
RefreshCookieValues == {Absent, "", "rt1"}
VerifierCookieValues == {Absent, "", "v1"}
TempSessionCookieValues == {Absent, "ts1"}
AuthSessionCookieValues == {Absent, "as1"}

\* the cookies a request may carry, keyed by cookie name
RequestCookies(names) ==
  { [n \in {names.accessToken, names.refreshToken, names.codeVerifier,
            names.tempSessionId, names.authSessionId} |->
       CASE n = names.accessToken   -> a
         [] n = names.refreshToken  -> r
         [] n = names.codeVerifier  -> v
         [] n = names.tempSessionId -> t
         [] OTHER                   -> s] :
    a \in AccessCookieValues, r \in RefreshCookieValues, v \in VerifierCookieValues,
    t \in TempSessionCookieValues, s \in AuthSessionCookieValues }

Searches ==
  { <<>>,
    <<"?", "code", "=", "c1">>,
    <<"?", "session_state", "=", "s1">>,
    <<"?", "code", "=", "c1", "&", "session_state", "=", "s1">>,
    <<"?", "session_state", "=", "", "&", "code", "=", "">> }

RequestUrls ==
  [origin : {"https://app.example", "http://evil.example"},
   pathname : {"/aoh/api/auth/callback"},
   search : Searches]

\* token sets the provider may answer a refresh or a code exchange with
TokenSets ==
  [access_token : {"hdr.u2.sig", "invalid"},
   refresh_token : {Absent, "rt2"},
   expires_in : {NoNumber, <<0>>, <<300>>}]

\* provider error codes of a rejected code exchange; Absent: an error
\* without a code (network failure)
ExchangeErrors == {"invalid_grant", "unauthorized_client", "invalid_request", Absent}

\* what pkce.generateVerifier may give
GeneratedVerifiers == {"v1"}

\* the id_token of the token set a refresh at logout resolves with
IdTokens == {Absent, "idt1"}

\* config.contextCookieName ?? "context_value"
contextCookieName == "context_value"

\* a map with no entries
EmptyMap == [k \in {} |-> Absent]

NoUrl == [origin |-> "", pathname |-> "", search |-> <<>>]

(***************************************************************************)
(* State machine                                                           *)
(***************************************************************************)

Init ==
  /\ config \in Configs
  /\ handler = ""
  /\ hook = << >>
  /\ par = << >>
  /\ pure = << >>
  /\ browser = << >>
  /\ pc = "idle"
  /\ cookies = EmptyMap
  /\ url = NoUrl
  /\ ops = << >>
  /\ calls = << >>
  /\ replies = << >>
  /\ result = NoResult
  /\ codeVerifier = Absent
  /\ tokenSet = NoTokenSet
  /\ store = [temp |-> EmptyMap, auth |-> EmptyMap]

Finish(outcome) ==
  /\ ops' = outcome.ops
  /\ result' = outcome.result
  /\ pc' = outcome.pc

\* a provider or store call is issued and awaited at position p
Await(fn, a, b, p) ==
  /\ calls' = Append(calls, Call(fn, a, b))
  /\ pc' = p
  /\ UNCHANGED <<ops, result>>

\* doRefresh up to its await: refreshTokens calls refreshTokenGrant
StartRefresh(refreshToken) == Await("refreshTokenGrant", refreshToken, "", "refresh")

\* variant: the callback is looked at before the refresh token
Decision_callbackBeforeRefresh(accessToken, refreshToken, u) ==
  IF Truthy(accessToken) /\ Truthy(refreshToken) THEN "validate"
  ELSE IF isOidcCallback(u) THEN "callback"
  ELSE IF Truthy(refreshToken) THEN "refresh"
  ELSE "fail"

\* the decision order of authenticate: the first matching case wins
Decision(accessToken, refreshToken, u) ==
  IF Truthy(accessToken) /\ Truthy(refreshToken) THEN "validate"
  ELSE IF Truthy(refreshToken) THEN "refresh"
  ELSE IF isOidcCallback(u) THEN "callback"
  ELSE "fail"

\* variant: the exchange is attempted without checking for the verifier
OidcCallbackStart_unchecked(u, verifier) ==
  Await("authorizationCodeGrant", CallbackUrl(u), verifier, "exchange")

\* handleOidcCallback up to its await or its return
OidcCallbackStart(u, verifier) ==
  IF ~Truthy(verifier)
  THEN /\ Finish(handleAuthFailure(ops))
       /\ UNCHANGED calls
  ELSE Await("authorizationCodeGrant", CallbackUrl(u), verifier, "exchange")

\* authenticate, up to its first await or its return
AuthenticateCall(c, u) ==
  /\ handler' = "authenticate"
  /\ hook' = << "authenticate" >>
  /\ cookies' = c
  /\ url' = u
  /\ LET accessToken  == c[cookieNames.accessToken]
         refreshToken == c[cookieNames.refreshToken]
         verifier     == c[cookieNames.codeVerifier]
         case         == Decision(accessToken, refreshToken, u)
     IN  /\ codeVerifier' = verifier
         /\ CASE case = "validate" ->
                   IF ValidateReachesProvider(accessToken)
                   THEN Await("fetchUserInfo", accessToken,
                              jwtDecode(accessToken).claims.sub, "validate")
                   ELSE StartRefresh(refreshToken)
              [] case = "refresh"  -> StartRefresh(refreshToken)
              [] case = "callback" -> OidcCallbackStart(u, verifier)
              [] OTHER             -> /\ Finish(handleAuthFailure(ops))
                                      /\ UNCHANGED calls
  /\ UNCHANGED <<aside, config, replies, tokenSet, store>>

\* a request arrives under the cookie strategy
Authenticate ==
  /\ pc = "idle"
  /\ config.strategy = "cookie"
  /\ \E c \in RequestCookies(cookieNames), u \in RequestUrls : AuthenticateCall(c, u)

\* variant: the outcome of the validation is read the wrong way round
FetchUserInfoReturns_inverted(valid) ==
  /\ pc = "validate"
  /\ replies' = Append(replies, IF valid THEN Resolved("", NoTokenSet)
                                ELSE Rejected(Absent))
  /\ IF ~valid
     THEN /\ Finish(handleAuthSuccess(ops, CookieGet(cookieNames.accessToken),
                                      Absent, NoNumber))
          /\ UNCHANGED calls
     ELSE StartRefresh(CookieGet(cookieNames.refreshToken))
  /\ UNCHANGED <<aside, config, handler, hook, cookies, url, codeVerifier, tokenSet, store>>

\* validateAccessToken resumes: fetchUserInfo resolved (valid) or rejected
FetchUserInfoReturns(valid) ==
  /\ pc = "validate"
  /\ replies' = Append(replies, IF valid THEN Resolved("", NoTokenSet)
                                ELSE Rejected(Absent))
  /\ IF valid
     THEN /\ Finish(handleAuthSuccess(ops, CookieGet(cookieNames.accessToken),
                                      Absent, NoNumber))
          /\ UNCHANGED calls
     ELSE StartRefresh(CookieGet(cookieNames.refreshToken))
  /\ UNCHANGED <<aside, config, handler, hook, cookies, url, codeVerifier, tokenSet, store>>

\* variant: after a failed refresh a callback URL is served all the same
RefreshTokenGrantReturns_fallsThroughToCallback(newTokens) ==
  /\ pc = "refresh"
  /\ replies' = Append(replies, IF newTokens # NoTokenSet THEN Resolved("", newTokens)
                                ELSE Rejected(Absent))
  /\ tokenSet' = newTokens
  /\ IF newTokens = NoTokenSet /\ isOidcCallback(url)
     THEN OidcCallbackStart(url, codeVerifier)
     ELSE /\ Finish(RefreshReturned(ops, newTokens))
          /\ UNCHANGED calls
  /\ UNCHANGED <<aside, config, handler, hook, cookies, url, codeVerifier, store>>

\* doRefresh resumes: refreshTokens returned a token set, or undefined
\* (NoTokenSet) when refreshTokenGrant rejected
RefreshTokenGrantReturns(newTokens) ==
  /\ pc = "refresh"
  /\ replies' = Append(replies, IF newTokens # NoTokenSet THEN Resolved("", newTokens)
                                ELSE Rejected(Absent))
  /\ tokenSet' = newTokens
  /\ Finish(RefreshReturned(ops, newTokens))
  /\ UNCHANGED <<aside, config, handler, hook, cookies, url, calls, codeVerifier, store>>

\* handleOidcCallback resumes: exchangeCode resolved
AuthorizationCodeGrantResolves(tokens) ==
  /\ pc = "exchange"
  /\ replies' = Append(replies, Resolved("", tokens))
  /\ tokenSet' = tokens
  /\ Finish(OidcCallbackExchanged(ops, tokens))
  /\ UNCHANGED <<aside, config, handler, hook, cookies, url, calls, codeVerifier, store>>

\* handleOidcCallback resumes: exchangeCode rejected
AuthorizationCodeGrantRejects(err) ==
  /\ pc = "exchange"
  /\ replies' = Append(replies, Rejected(err))
  /\ Finish(OidcCallbackCatch(ops, err))
  /\ UNCHANGED <<aside, config, handler, hook, cookies, url, calls, codeVerifier, tokenSet, store>>

\* variant: the store is asked whether or not the request carries a temp session
SdsOidcCallbackStart_unchecked(c) ==
  Await("tempSessionGet", c[cookieNames.tempSessionId], SDS_SESSION_KEYS.CODE_VERIFIER,
        "tempSessionGet")

\* handleSdsOidcCallback up to its first await or its return
SdsOidcCallbackStart(c) ==
  LET tempSessionId == c[cookieNames.tempSessionId]
  IN  IF ~Truthy(tempSessionId)
      THEN /\ Finish(handleSdsAuthFailure(ops))
           /\ UNCHANGED calls
      ELSE Await("tempSessionGet", tempSessionId, SDS_SESSION_KEYS.CODE_VERIFIER,
                 "tempSessionGet")

\* the decision order of authenticateWithSds
SdsDecision(authSessionId, u) ==
  IF Truthy(authSessionId) THEN "session"
  ELSE IF isOidcCallback(u) THEN "callback"
  ELSE "fail"

\* authenticateWithSds, up to its first await or its return
AuthenticateWithSdsCall(c, u) ==
  /\ handler' = "authenticateWithSds"
  /\ hook' = << "createSdsClient", "authenticateWithSds" >>
  /\ cookies' = c
  /\ url' = u
  /\ LET authSessionId == c[cookieNames.authSessionId]
         case          == SdsDecision(authSessionId, u)
     IN  CASE case = "session"  -> Await("authSessionGetAccessToken", authSessionId, "",
                                         "authSessionGetAccessToken")
           [] case = "callback" -> SdsOidcCallbackStart(c)
           [] OTHER             -> /\ Finish(handleSdsAuthFailure(ops))
                                   /\ UNCHANGED calls
  /\ UNCHANGED <<aside, config, replies, codeVerifier, tokenSet, store>>

\* a request arrives under the store strategy
AuthenticateWithSds ==
  /\ pc = "idle"
  /\ config.strategy = "sds"
  /\ \E c \in RequestCookies(cookieNames), u \in RequestUrls :
        AuthenticateWithSdsCall(c, u)

\* authenticateWithSds resumes: the store answered with the session's
\* access token (found), or rejected (unknown or expired session, store error)
AuthSessionGetAccessTokenReturns(found) ==
  /\ pc = "authSessionGetAccessToken"
  /\ LET authSessionId == CookieGet(cookieNames.authSessionId)
     IN  IF found
         THEN /\ authSessionId \in DOMAIN store.auth
              /\ replies' = Append(replies,
                     Resolved(store.auth[authSessionId].access_token, NoTokenSet))
              /\ Finish(SdsSessionFound(ops, store.auth[authSessionId].access_token,
                                        authSessionId))
         ELSE /\ replies' = Append(replies, Rejected(Absent))
              /\ Finish(handleSdsAuthFailure(ops))
  /\ UNCHANGED <<aside, config, handler, hook, cookies, url, calls, codeVerifier, tokenSet, store>>

\* handleSdsOidcCallback resumes: the store answered with the verifier kept
\* in the temp session (found), or rejected
TempSessionGetReturns(found) ==
  /\ pc = "tempSessionGet"
  /\ LET tempSessionId == CookieGet(cookieNames.tempSessionId)
     IN  IF found
         THEN /\ tempSessionId \in DOMAIN store.temp
              /\ store.temp[tempSessionId] # Absent
              /\ replies' = Append(replies,
                                   Resolved(store.temp[tempSessionId], NoTokenSet))
              /\ codeVerifier' = store.temp[tempSessionId]
              /\ Await("authorizationCodeGrant", CallbackUrl(url),
                       store.temp[tempSessionId], "sdsExchange")
         ELSE /\ replies' = Append(replies, Rejected(Absent))
              /\ Finish(handleSdsAuthFailure(ops))
              /\ UNCHANGED <<calls, codeVerifier>>
  /\ UNCHANGED <<aside, config, handler, hook, cookies, url, tokenSet, store>>

\* variant: the auth session is seeded with the two tokens the wrong way round
SdsAuthorizationCodeGrantResolves_swapsTokens(tokens) ==
  /\ pc = "sdsExchange"
  /\ replies' = Append(replies, Resolved("", tokens))
  /\ tokenSet' = tokens
  /\ Await("authSessionNew", tokens.refresh_token, tokens.access_token,
           "authSessionNew")
  /\ UNCHANGED <<aside, config, handler, hook, cookies, url, codeVerifier, store>>

\* handleSdsOidcCallback resumes: exchangeCode resolved; authSessionNew is called
SdsAuthorizationCodeGrantResolves(tokens) ==
  /\ pc = "sdsExchange"
  /\ replies' = Append(replies, Resolved("", tokens))
  /\ tokenSet' = tokens
  /\ Await("authSessionNew", tokens.access_token, tokens.refresh_token,
           "authSessionNew")
  /\ UNCHANGED <<aside, config, handler, hook, cookies, url, codeVerifier, store>>

\* handleSdsOidcCallback resumes: exchangeCode rejected
SdsAuthorizationCodeGrantRejects(err) ==
  /\ pc = "sdsExchange"
  /\ replies' = Append(replies, Rejected(err))
  /\ Finish(SdsOidcCallbackCatch(ops, err))
  /\ UNCHANGED <<aside, config, handler, hook, cookies, url, calls, codeVerifier, tokenSet, store>>

\* variant: the rejection of authSessionNew reaches the caller
AuthSessionNewReturns_raises(created) ==
  /\ pc = "authSessionNew"
  /\ IF created
     THEN /\ Cardinality(DOMAIN store.auth) < MaxAuthSessions
          /\ replies' = Append(replies, Resolved(NewAuthSessionId, NoTokenSet))
          /\ store' = StoreAuthSessionNew(store, NewAuthSessionId,
                                          tokenSet.access_token, tokenSet.refresh_token)
          /\ Finish(SdsSessionCreated(ops, tokenSet, NewAuthSessionId))
     ELSE /\ replies' = Append(replies, Rejected(Absent))
          /\ Finish(Outcome(ops, Thrown("SdsError"), "thrown"))
          /\ UNCHANGED store
  /\ UNCHANGED <<aside, config, handler, hook, cookies, url, calls, codeVerifier, tokenSet>>

\* handleSdsOidcCallback resumes: the store created the auth session
\* (created), or rejected
AuthSessionNewReturns(created) ==
  /\ pc = "authSessionNew"
  /\ IF created
     THEN /\ Cardinality(DOMAIN store.auth) < MaxAuthSessions
          /\ replies' = Append(replies, Resolved(NewAuthSessionId, NoTokenSet))
          /\ store' = StoreAuthSessionNew(store, NewAuthSessionId,
                                          tokenSet.access_token, tokenSet.refresh_token)
          /\ Finish(SdsSessionCreated(ops, tokenSet, NewAuthSessionId))
     ELSE /\ replies' = Append(replies, Rejected(Absent))
          /\ Finish(SdsOidcCallbackCatch(ops, Absent))
          /\ UNCHANGED store
  /\ UNCHANGED <<aside, config, handler, hook, cookies, url, calls, codeVerifier, tokenSet>>

(***************************************************************************)
(* core/sds.ts: storeCodeVerifierInSds and destroySdsSession               *)
(***************************************************************************)

\* storeCodeVerifierInSds up to its first await
StoreCodeVerifierInSdsCall(c, verifier) ==
  /\ handler' = "storeCodeVerifierInSds"
  /\ UNCHANGED hook
  /\ cookies' = c
  /\ codeVerifier' = verifier
  /\ Await("tempSessionNew", "", "", "storeCodeVerifierInSds.tempSessionNew")
  /\ UNCHANGED <<aside, config, url, replies, tokenSet, store>>

\* the helper is called with a store client, which only the store strategy has
StoreCodeVerifierInSds ==
  /\ pc = "idle"
  /\ config.strategy = "sds"
  /\ \E c \in RequestCookies(cookieNames), verifier \in GeneratedVerifiers :
        StoreCodeVerifierInSdsCall(c, verifier)

\* storeCodeVerifierInSds resumes: the store created the temp session
\* (created) or rejected; a rejection is logged and thrown again
StoreTempSessionNewReturns(created) ==
  /\ pc = "storeCodeVerifierInSds.tempSessionNew"
  /\ IF created
     THEN /\ Cardinality(DOMAIN store.temp) < MaxTempSessions
          /\ replies' = Append(replies, Resolved(NewTempSessionId, NoTokenSet))
          /\ store' = StoreTempSessionNew(store, NewTempSessionId)
          /\ calls' = Append(calls, Call3("tempSessionSet", NewTempSessionId,
                                          SDS_SESSION_KEYS.CODE_VERIFIER, codeVerifier))
          /\ pc' = "storeCodeVerifierInSds.tempSessionSet"
          /\ UNCHANGED <<ops, result>>
     ELSE /\ replies' = Append(replies, Rejected(Absent))
          /\ result' = Thrown("SdsError")
          /\ pc' = "thrown"
          /\ UNCHANGED <<ops, calls, store>>
  /\ UNCHANGED <<aside, config, handler, hook, cookies, url, codeVerifier, tokenSet>>

\* storeCodeVerifierInSds resumes: the store kept the verifier (stored) or
\* rejected
StoreTempSessionSetReturns(stored) ==
  /\ pc = "storeCodeVerifierInSds.tempSessionSet"
  /\ LET tempSessionId == calls[Len(calls)].a
     IN  IF stored
         THEN /\ replies' = Append(replies, Resolved("", NoTokenSet))
              /\ store' = StoreTempSessionSet(store, tempSessionId, codeVerifier)
              /\ Finish(Outcome(CookieSet(ops, cookieNames.tempSessionId, tempSessionId,
                                          cookieOptions),
                                Returned, "done"))
         ELSE /\ replies' = Append(replies, Rejected(Absent))
              /\ Finish(Outcome(ops, Thrown("SdsError"), "thrown"))
              /\ UNCHANGED store
  /\ UNCHANGED <<aside, config, handler, hook, cookies, url, calls, codeVerifier, tokenSet>>

\* destroySdsSession up to its await or its return
DestroySdsSessionCall(c) ==
  /\ handler' = "destroySdsSession"
  /\ UNCHANGED hook
  /\ cookies' = c
  /\ LET authSessionId == c[cookieNames.authSessionId]
     IN  IF Truthy(authSessionId)
         THEN Await("authSessionDestroy", authSessionId, "",
                    "destroySdsSession.authSessionDestroy")
         ELSE /\ Finish(Outcome(CookieDelete(ops, cookieNames.authSessionId,
                                             withExpiry(cookieOptions, 0)),
                                Returned, "done"))
              /\ UNCHANGED calls
  /\ UNCHANGED <<aside, config, url, replies, codeVerifier, tokenSet, store>>

DestroySdsSession ==
  /\ pc = "idle"
  /\ config.strategy = "sds"
  /\ \E c \in RequestCookies(cookieNames) : DestroySdsSessionCall(c)

\* variant: the cookie is kept when the store could not destroy the session
DestroyAuthSessionDestroyReturns_keepsCookieOnError(destroyed) ==
  /\ pc = "destroySdsSession.authSessionDestroy"
  /\ replies' = Append(replies, IF destroyed THEN Resolved("", NoTokenSet)
                                ELSE Rejected(Absent))
  /\ store' = IF destroyed
              THEN StoreAuthSessionDestroy(store, CookieGet(cookieNames.authSessionId))
              ELSE store
  /\ Finish(Outcome(IF destroyed
                    THEN CookieDelete(ops, cookieNames.authSessionId,
                                      withExpiry(cookieOptions, 0))
                    ELSE ops,
                    Returned, "done"))
  /\ UNCHANGED <<aside, config, handler, hook, cookies, url, calls, codeVerifier, tokenSet>>

\* destroySdsSession resumes: the store destroyed the session (destroyed) or
\* rejected, which is logged; the cookie is deleted in both cases
DestroyAuthSessionDestroyReturns(destroyed) ==
  /\ pc = "destroySdsSession.authSessionDestroy"
  /\ replies' = Append(replies, IF destroyed THEN Resolved("", NoTokenSet)
                                ELSE Rejected(Absent))
  /\ store' = IF destroyed
              THEN StoreAuthSessionDestroy(store, CookieGet(cookieNames.authSessionId))
              ELSE store
  /\ Finish(Outcome(CookieDelete(ops, cookieNames.authSessionId,
                                 withExpiry(cookieOptions, 0)),
                    Returned, "done"))
  /\ UNCHANGED <<aside, config, handler, hook, cookies, url, calls, codeVerifier, tokenSet>>

(***************************************************************************)
(* adapters/sveltekit/routes.ts: the login, logout and refresh routes.     *)
(* oidc: locals.clients.oidc_config is there; connected: createSdsClient   *)
(* resolved.  close() of the store client is taken to resolve.             *)
(***************************************************************************)

\* the store client is closed: the call and its answer
Closed(cs) == Append(cs, Call("close", "", ""))

\* login up to its first await, its return or its throw
LoginCall(c, oidc, verifier, connected) ==
  /\ handler' = "login"
  /\ UNCHANGED hook
  /\ cookies' = c
  /\ IF ~oidc
     THEN /\ Finish(Outcome(ops, Thrown("OIDC config not found in locals"), "thrown"))
          /\ UNCHANGED <<calls, replies, codeVerifier>>
     ELSE /\ codeVerifier' = verifier
          /\ IF config.strategy = "sds"
             THEN IF connected
                  THEN /\ calls' = calls \o << Call("createSdsClient", "", ""),
                                               Call("tempSessionNew", "", "") >>
                       /\ replies' = Append(replies, Resolved("", NoTokenSet))
                       /\ pc' = "login.tempSessionNew"
                       /\ UNCHANGED <<ops, result>>
                  ELSE /\ calls' = Append(calls, Call("createSdsClient", "", ""))
                       /\ replies' = Append(replies, Rejected(Absent))
                       /\ Finish(Outcome(ops, Thrown("SdsError"), "thrown"))
             ELSE /\ Finish(Outcome(CookieSet(ops, cookieNames.codeVerifier, verifier,
                                              cookieOptions),
                                    Response("307", "authUrl"), "done"))
                  /\ UNCHANGED <<calls, replies>>
  /\ UNCHANGED <<aside, config, url, tokenSet, store>>

Login ==
  /\ pc = "idle"
  /\ \E c \in RequestCookies(cookieNames), oidc \in BOOLEAN,
        verifier \in GeneratedVerifiers, connected \in BOOLEAN :
        LoginCall(c, oidc, verifier, connected)

\* login resumes: the store created the temp session (created) or rejected;
\* the finally clause closes the client
LoginTempSessionNewReturns(created) ==
  /\ pc = "login.tempSessionNew"
  /\ IF created
     THEN /\ Cardinality(DOMAIN store.temp) < MaxTempSessions
          /\ replies' = Append(replies, Resolved(NewTempSessionId, NoTokenSet))
          /\ store' = StoreTempSessionNew(store, NewTempSessionId)
          /\ calls' = Append(calls, Call3("tempSessionSet", NewTempSessionId,
                                          "code_verifier", codeVerifier))
          /\ pc' = "login.tempSessionSet"
          /\ UNCHANGED <<ops, result>>
     ELSE /\ replies' = replies \o << Rejected(Absent), Resolved("", NoTokenSet) >>
          /\ calls' = Closed(calls)
          /\ Finish(Outcome(ops, Thrown("SdsError"), "thrown"))
          /\ UNCHANGED store
  /\ UNCHANGED <<aside, config, handler, hook, cookies, url, codeVerifier, tokenSet>>

\* variant: under the store strategy the verifier is put into its cookie as well
LoginTempSessionSetReturns_verifierCookie(stored) ==
  /\ pc = "login.tempSessionSet"
  /\ calls' = Closed(calls)
  /\ LET tempSessionId == calls[Len(calls)].a
     IN  IF stored
         THEN /\ replies' = replies \o << Resolved("", NoTokenSet), Resolved("", NoTokenSet) >>
              /\ store' = StoreTempSessionSet(store, tempSessionId, codeVerifier)
              /\ Finish(Outcome(CookieSet(CookieSet(ops, cookieNames.tempSessionId,
                                                    tempSessionId, cookieOptions),
                                          cookieNames.codeVerifier, codeVerifier,
                                          cookieOptions),
                                Response("307", "authUrl"), "done"))
         ELSE /\ replies' = replies \o << Rejected(Absent), Resolved("", NoTokenSet) >>
              /\ Finish(Outcome(ops, Thrown("SdsError"), "thrown"))
              /\ UNCHANGED store
  /\ UNCHANGED <<aside, config, handler, hook, cookies, url, codeVerifier, tokenSet>>

\* login resumes: the store kept the verifier (stored) or rejected
LoginTempSessionSetReturns(stored) ==
  /\ pc = "login.tempSessionSet"
  /\ calls' = Closed(calls)
  /\ LET tempSessionId == calls[Len(calls)].a
     IN  IF stored
         THEN /\ replies' = replies \o << Resolved("", NoTokenSet), Resolved("", NoTokenSet) >>
              /\ store' = StoreTempSessionSet(store, tempSessionId, codeVerifier)
              /\ Finish(Outcome(CookieSet(ops, cookieNames.tempSessionId, tempSessionId,
                                          cookieOptions),
                                Response("307", "authUrl"), "done"))
         ELSE /\ replies' = replies \o << Rejected(Absent), Resolved("", NoTokenSet) >>
              /\ Finish(Outcome(ops, Thrown("SdsError"), "thrown"))
              /\ UNCHANGED store
  /\ UNCHANGED <<aside, config, handler, hook, cookies, url, codeVerifier, tokenSet>>

\* logout up to its await, its return or its throw
LogoutCall(c, oidc, connected) ==
  /\ handler' = "logout"
  /\ UNCHANGED hook
  /\ cookies' = c
  /\ IF config.strategy = "sds"
     THEN LET authSessionId == c[cookieNames.authSessionId]
              o1 == CookieDelete(ops, cookieNames.authSessionId, cookieOptions)
          IN  IF ~Truthy(authSessionId)
              THEN /\ Finish(Outcome(o1, Response("307", "postLogoutUri"), "done"))
                   /\ UNCHANGED <<calls, replies>>
              ELSE IF connected
              THEN /\ ops' = o1
                   /\ calls' = calls \o << Call("createSdsClient", "", ""),
                                           Call("authSessionDestroy", authSessionId, "") >>
                   /\ replies' = Append(replies, Resolved("", NoTokenSet))
                   /\ pc' = "logout.authSessionDestroy"
                   /\ UNCHANGED result
              ELSE /\ calls' = Append(calls, Call("createSdsClient", "", ""))
                   /\ replies' = Append(replies, Rejected(Absent))
                   /\ Finish(Outcome(o1, Thrown("SdsError"), "thrown"))
     ELSE LET refreshToken == c[cookieNames.refreshToken]
              expiredOpts  == withExpiry(cookieOptions, 0)
              o1 == CookieDelete(ops, cookieNames.accessToken,  expiredOpts)
              o2 == CookieDelete(o1,  cookieNames.refreshToken, expiredOpts)
              o3 == CookieDelete(o2,  contextCookieName,        expiredOpts)
          IN  IF Truthy(refreshToken) /\ oidc
              THEN /\ ops' = o3
                   /\ calls' = Append(calls, Call("refreshTokenGrant", refreshToken, ""))
                   /\ pc' = "logout.refreshTokenGrant"
                   /\ UNCHANGED <<result, replies>>
              ELSE /\ Finish(Outcome(o3, Response("307", "postLogoutUri"), "done"))
                   /\ UNCHANGED <<calls, replies>>
  /\ UNCHANGED <<aside, config, url, codeVerifier, tokenSet, store>>

Logout ==
  /\ pc = "idle"
  /\ \E c \in RequestCookies(cookieNames), oidc \in BOOLEAN, connected \in BOOLEAN :
        LogoutCall(c, oidc, connected)

\* logout resumes: the store destroyed the session (destroyed) or rejected,
\* which is logged; the client is closed
LogoutAuthSessionDestroyReturns(destroyed) ==
  /\ pc = "logout.authSessionDestroy"
  /\ replies' = replies \o << IF destroyed THEN Resolved("", NoTokenSet)
                              ELSE Rejected(Absent),
                              Resolved("", NoTokenSet) >>
  /\ calls' = Closed(calls)
  /\ store' = IF destroyed
              THEN StoreAuthSessionDestroy(store, CookieGet(cookieNames.authSessionId))
              ELSE store
  /\ Finish(Outcome(ops, Response("307", "postLogoutUri"), "done"))
  /\ UNCHANGED <<aside, config, handler, hook, cookies, url, codeVerifier, tokenSet>>

\* cookie-based logout resumes: the refresh resolved (answered) with or
\* without an id_token, or rejected
LogoutRefreshTokenGrantReturns(answered, idToken) ==
  /\ pc = "logout.refreshTokenGrant"
  /\ replies' = Append(replies, IF answered THEN Resolved(idToken, NoTokenSet)
                                ELSE Rejected(Absent))
  /\ Finish(Outcome(ops,
                    IF answered /\ Truthy(idToken)
                    THEN Response("307", "endSessionUrl")
                    ELSE Response("307", "postLogoutUri"),
                    "done"))
  /\ UNCHANGED <<aside, config, handler, hook, cookies, url, calls, codeVerifier, tokenSet, store>>

\* refresh up to its await, its return or its throw
RefreshCall(c, oidc, connected) ==
  /\ handler' = "refresh"
  /\ UNCHANGED hook
  /\ cookies' = c
  /\ IF config.strategy = "sds"
     THEN LET authSessionId == c[cookieNames.authSessionId]
          IN  IF ~Truthy(authSessionId)
              THEN /\ Finish(Outcome(ops, Response("401", ""), "done"))
                   /\ UNCHANGED <<calls, replies>>
              ELSE IF connected
              THEN /\ calls' = calls \o << Call("createSdsClient", "", ""),
                                           Call("authSessionGetAccessToken",
                                                authSessionId, "") >>
                   /\ replies' = Append(replies, Resolved("", NoTokenSet))
                   /\ pc' = "refresh.authSessionGetAccessToken"
                   /\ UNCHANGED <<ops, result>>
              ELSE /\ calls' = Append(calls, Call("createSdsClient", "", ""))
                   /\ replies' = Append(replies, Rejected(Absent))
                   /\ Finish(Outcome(ops, Thrown("SdsError"), "thrown"))
     ELSE LET refreshToken == c[cookieNames.refreshToken]
          IN  IF Truthy(refreshToken) /\ oidc
              THEN /\ Await("refreshTokenGrant", refreshToken, "",
                            "refresh.refreshTokenGrant")
                   /\ UNCHANGED replies
              ELSE /\ Finish(Outcome(ops, Response("401", ""), "done"))
                   /\ UNCHANGED <<calls, replies>>
  /\ UNCHANGED <<aside, config, url, codeVerifier, tokenSet, store>>

Refresh ==
  /\ pc = "idle"
  /\ \E c \in RequestCookies(cookieNames), oidc \in BOOLEAN, connected \in BOOLEAN :
        RefreshCall(c, oidc, connected)

\* refresh resumes: the store answered with the session's access token
\* (found) or rejected; the client is closed
RefreshAuthSessionGetAccessTokenReturns(found) ==
  /\ pc = "refresh.authSessionGetAccessToken"
  /\ calls' = Closed(calls)
  /\ LET authSessionId == CookieGet(cookieNames.authSessionId)
     IN  IF found
         THEN /\ authSessionId \in DOMAIN store.auth
              /\ replies' = replies \o
                   << Resolved(store.auth[authSessionId].access_token, NoTokenSet),
                      Resolved("", NoTokenSet) >>
              /\ Finish(Outcome(ops, Response("200", ""), "done"))
         ELSE /\ replies' = replies \o << Rejected(Absent), Resolved("", NoTokenSet) >>
              /\ Finish(Outcome(CookieDelete(ops, cookieNames.authSessionId,
                                             withExpiry(cookieOptions, 0)),
                                Response("401", ""), "done"))
  /\ UNCHANGED <<aside, config, handler, hook, cookies, url, codeVerifier, tokenSet, store>>

\* cookie-based refresh resumes: refreshTokenGrant resolved with a token set
\* or rejected (NoTokenSet); tokens.expires_in! and tokens.refresh_token! may
\* be undefined
RefreshRefreshTokenGrantReturns(tokens) ==
  /\ pc = "refresh.refreshTokenGrant"
  /\ IF tokens # NoTokenSet
     THEN /\ replies' = Append(replies, Resolved("", tokens))
          /\ LET o1 == CookieSet(ops, cookieNames.accessToken, tokens.access_token,
                                 [cookieOptions EXCEPT !.maxAge = tokens.expires_in])
                 o2 == CookieSet(o1, cookieNames.refreshToken, tokens.refresh_token,
                                 withExpiry(cookieOptions, REFRESH_TOKEN_EXPIRY))
                 o3 == CookieDelete(o2, cookieNames.codeVerifier,
                                    withExpiry(cookieOptions, 0))
             IN  Finish(Outcome(o3, Response("200", ""), "done"))
     ELSE /\ replies' = Append(replies, Rejected(Absent))
          /\ LET o1 == CookieDelete(ops, cookieNames.accessToken,
                                    withExpiry(cookieOptions, 0))
                 o2 == CookieDelete(o1, cookieNames.refreshToken,
                                    withExpiry(cookieOptions, 0))
             IN  Finish(Outcome(o2, Response("401", ""), "done"))
  /\ UNCHANGED <<aside, config, handler, hook, cookies, url, calls, codeVerifier, tokenSet, store>>

(***************************************************************************)
(* adapters/sveltekit/hooks.ts: handle, around the authenticator.  The     *)
(* authenticators above start when handle calls them; under the store      *)
(* strategy createSdsClient has resolved by then.                          *)
(***************************************************************************)

\* what handle runs in its try block
HookHandlers == {"authenticate", "authenticateWithSds", "handle"}

\* handle has resolved the request or thrown the error again
HandleEnded == hook # << >> /\ hook[Len(hook)] \in {"resolve", "rethrow"}

\* handle got a store client from createSdsClient
ClientAcquired == \E i \in 1..Len(hook) : hook[i] = "createSdsClient"

\* handle under the store strategy: createSdsClient rejects, which the try
\* block catches before an authenticator is called
HandleCreateSdsClientRejects ==
  /\ pc = "idle"
  /\ config.strategy = "sds"
  /\ handler' = "handle"
  /\ hook' = << "createSdsClient.rejected" >>
  /\ Finish(Outcome(ops, Thrown("SdsError"), "thrown"))
  /\ UNCHANGED <<aside, config, cookies, url, calls, replies, codeVerifier, tokenSet, store>>

\* the catch clause of handle: the error is logged and NODE_ENV is read;
\* dev: it is "development"
HandleCatch(dev) ==
  << "logger.error", IF dev THEN "NODE_ENV.development" ELSE "NODE_ENV.other" >>

\* variant: the error is thrown again whatever NODE_ENV is
HandleFinally_alwaysRethrows(dev) ==
  /\ handler \in HookHandlers
  /\ pc \in {"done", "thrown"}
  /\ ~HandleEnded
  /\ hook' = hook
       \o (IF pc = "done" THEN << "setAuthLocals" >> ELSE HandleCatch(dev))
       \o (IF ClientAcquired THEN << "close" >> ELSE << >>)
       \o (IF pc = "thrown" THEN << "rethrow" >> ELSE << "resolve" >>)
  /\ UNCHANGED <<aside, config, handler, pc, cookies, url, ops, calls, replies, result,
                 codeVerifier, tokenSet, store>>

\* variant: the client is closed only when the authenticator returned
HandleFinally_leaksOnThrow(dev) ==
  /\ handler \in HookHandlers
  /\ pc \in {"done", "thrown"}
  /\ ~HandleEnded
  /\ hook' = hook
       \o (IF pc = "done" THEN << "setAuthLocals" >> ELSE HandleCatch(dev))
       \o (IF ClientAcquired /\ pc = "done" THEN << "close" >> ELSE << >>)
       \o (IF pc = "thrown" /\ dev THEN << "rethrow" >> ELSE << "resolve" >>)
  /\ UNCHANGED <<aside, config, handler, pc, cookies, url, ops, calls, replies, result,
                 codeVerifier, tokenSet, store>>

\* the rest of handle once the authenticator returned or threw: the locals
\* are set after a return; an error is logged and, in development (dev),
\* thrown again; the finally clause closes the client; unless the error was
\* thrown again the request is resolved
HandleFinally(dev) ==
  /\ handler \in HookHandlers
  /\ pc \in {"done", "thrown"}
  /\ ~HandleEnded
  /\ hook' = hook
       \o (IF pc = "done" THEN << "setAuthLocals" >> ELSE HandleCatch(dev))
       \o (IF ClientAcquired THEN << "close" >> ELSE << >>)
       \o (IF pc = "thrown" /\ dev THEN << "rethrow" >> ELSE << "resolve" >>)
  /\ UNCHANGED <<aside, config, handler, pc, cookies, url, ops, calls, replies, result,
                 codeVerifier, tokenSet, store>>

\* the caller has taken the result or the error; the next request may come
Return ==
  /\ pc \in {"done", "thrown"}
  /\ (handler \in HookHandlers) => HandleEnded
  /\ pc' = "idle"
  /\ handler' = ""
  /\ hook' = << >>
  /\ cookies' = EmptyMap
  /\ url' = NoUrl
  /\ ops' = << >>
  /\ calls' = << >>
  /\ replies' = << >>
  /\ result' = NoResult
  /\ codeVerifier' = Absent
  /\ tokenSet' = NoTokenSet
  /\ UNCHANGED <<aside, config, store>>

Next ==
  \/ Authenticate
  \/ \E valid \in BOOLEAN : FetchUserInfoReturns(valid)
  \/ \E newTokens \in TokenSets \cup {NoTokenSet} : RefreshTokenGrantReturns(newTokens)
  \/ \E tokens \in TokenSets : AuthorizationCodeGrantResolves(tokens)
  \/ \E err \in ExchangeErrors : AuthorizationCodeGrantRejects(err)
  \/ AuthenticateWithSds
  \/ \E found \in BOOLEAN : AuthSessionGetAccessTokenReturns(found)
  \/ \E found \in BOOLEAN : TempSessionGetReturns(found)
  \/ \E tokens \in TokenSets : SdsAuthorizationCodeGrantResolves(tokens)
  \/ \E err \in ExchangeErrors : SdsAuthorizationCodeGrantRejects(err)
  \/ \E created \in BOOLEAN : AuthSessionNewReturns(created)
  \/ StoreCodeVerifierInSds
  \/ \E created \in BOOLEAN : StoreTempSessionNewReturns(created)
  \/ \E stored \in BOOLEAN : StoreTempSessionSetReturns(stored)
  \/ DestroySdsSession
  \/ \E destroyed \in BOOLEAN : DestroyAuthSessionDestroyReturns(destroyed)
  \/ Login
  \/ \E created \in BOOLEAN : LoginTempSessionNewReturns(created)
  \/ \E stored \in BOOLEAN : LoginTempSessionSetReturns(stored)
  \/ Logout
  \/ \E destroyed \in BOOLEAN : LogoutAuthSessionDestroyReturns(destroyed)
  \/ \E answered \in BOOLEAN, idToken \in IdTokens :
        LogoutRefreshTokenGrantReturns(answered, idToken)
  \/ HandleCreateSdsClientRejects
  \/ \E dev \in BOOLEAN : HandleFinally(dev)
  \/ Refresh
  \/ \E found \in BOOLEAN : RefreshAuthSessionGetAccessTokenReturns(found)
  \/ \E tokens \in TokenSets \cup {NoTokenSet} : RefreshRefreshTokenGrantReturns(tokens)
  \/ Return

Spec == Init /\ [][Next]_vars

(***************************************************************************)
(* The authenticators alone, under fairness: every awaited provider or     *)
(* store call is answered in the end.  The requests are drawn from smaller *)
(* sets, and the store holds the temp session of an earlier login.         *)
(***************************************************************************)

LiveRequestCookies ==
  { c \in RequestCookies(cookieNames) :
      /\ c[cookieNames.accessToken]  \in {Absent, "hdr.u1.sig"}
      /\ c[cookieNames.refreshToken] \in {Absent, "rt1"}
      /\ c[cookieNames.codeVerifier] \in {Absent, "v1"} }

LiveRequestUrls ==
  { u \in RequestUrls :
      /\ u.origin = "http://evil.example"
      /\ u.search \in { << >>, <<"?", "code", "=", "c1", "&", "session_state", "=", "s1">> } }

LiveInit ==
  /\ config \in Configs
  /\ handler = ""
  /\ hook = << >>
  /\ par = << >>
  /\ pure = << >>
  /\ browser = << >>
  /\ pc = "idle"
  /\ cookies = EmptyMap
  /\ url = NoUrl
  /\ ops = << >>
  /\ calls = << >>
  /\ replies = << >>
  /\ result = NoResult
  /\ codeVerifier = Absent
  /\ tokenSet = NoTokenSet
  /\ store = [temp |-> [k \in {"ts1"} |-> "v1"], auth |-> EmptyMap]

LiveAuthenticate ==
  /\ pc = "idle"
  /\ config.strategy = "cookie"
  /\ \E c \in LiveRequestCookies, u \in LiveRequestUrls : AuthenticateCall(c, u)

LiveAuthenticateWithSds ==
  /\ pc = "idle"
  /\ config.strategy = "sds"
  /\ \E c \in LiveRequestCookies, u \in LiveRequestUrls : AuthenticateWithSdsCall(c, u)

LiveNext ==
  \/ LiveAuthenticate
  \/ \E valid \in BOOLEAN : FetchUserInfoReturns(valid)
  \/ \E newTokens \in TokenSets \cup {NoTokenSet} : RefreshTokenGrantReturns(newTokens)
  \/ \E tokens \in TokenSets : AuthorizationCodeGrantResolves(tokens)
  \/ \E err \in ExchangeErrors : AuthorizationCodeGrantRejects(err)
  \/ LiveAuthenticateWithSds
  \/ \E found \in BOOLEAN : AuthSessionGetAccessTokenReturns(found)
  \/ \E found \in BOOLEAN : TempSessionGetReturns(found)
  \/ \E tokens \in TokenSets : SdsAuthorizationCodeGrantResolves(tokens)
  \/ \E err \in ExchangeErrors : SdsAuthorizationCodeGrantRejects(err)
  \/ \E created \in BOOLEAN : AuthSessionNewReturns(created)
  \/ HandleCreateSdsClientRejects
  \/ \E dev \in BOOLEAN : HandleFinally(dev)
  \/ Return

LiveSpec == LiveInit /\ [][LiveNext]_vars /\ WF_vars(LiveNext)

(***************************************************************************)
(* Two calls of authenticate in flight at once.  Everything a call works   *)
(* on is local to it: the cookie adapter it was given (its request cookies *)
(* and the operations issued on it), the URL, and what it has awaited so   *)
(* far.  The calls share the configuration only, which nothing writes.     *)
(***************************************************************************)

\* the variables of the request served alone
serving == <<handler, hook, pc, cookies, url, ops, calls, replies, result,
             codeVerifier, tokenSet, store>>

Callers == {1, 2}

\* a call that has not started, or has returned
ParIdle ==
  [pc |-> "idle", cookies |-> EmptyMap, url |-> NoUrl, ops |-> << >>,
   calls |-> << >>, replies |-> << >>, result |-> NoResult]

\* the call r returns with the outcome of a handler
ParFinish(r, outcome) ==
  [r EXCEPT !.ops = outcome.ops, !.result = outcome.result, !.pc = outcome.pc]

\* the call r issues a provider call and awaits it at position p
ParAwait(r, fn, a, b, p) ==
  [r EXCEPT !.calls = Append(@, Call(fn, a, b)), !.pc = p]

\* doRefresh of the call r up to its await
ParStartRefresh(r) ==
  ParAwait(r, "refreshTokenGrant", r.cookies[cookieNames.refreshToken], "", "refresh")

\* authenticate(cookies c, url u) up to its first await or its return
ParAuthenticate(c, u) ==
  LET r            == [ParIdle EXCEPT !.cookies = c, !.url = u]
      accessToken  == c[cookieNames.accessToken]
      refreshToken == c[cookieNames.refreshToken]
      verifier     == c[cookieNames.codeVerifier]
      case         == Decision(accessToken, refreshToken, u)
  IN  CASE case = "validate" ->
             IF ValidateReachesProvider(accessToken)
             THEN ParAwait(r, "fetchUserInfo", accessToken,
                           jwtDecode(accessToken).claims.sub, "validate")
             ELSE ParStartRefresh(r)
        [] case = "refresh"  -> ParStartRefresh(r)
        [] case = "callback" ->
             IF ~Truthy(verifier)
             THEN ParFinish(r, handleAuthFailure(r.ops))
             ELSE ParAwait(r, "authorizationCodeGrant", CallbackUrl(u), verifier,
                           "exchange")
        [] OTHER             -> ParFinish(r, handleAuthFailure(r.ops))

\* the answers the provider may give to the call the call r awaits
ParReplies(r) ==
  CASE r.pc = "validate" -> {Resolved("", NoTokenSet), Rejected(Absent)}
    [] r.pc = "refresh"  -> {Resolved("", t) : t \in TokenSets} \cup {Rejected(Absent)}
    [] r.pc = "exchange" -> {Resolved("", t) : t \in TokenSets}
                              \cup {Rejected(err) : err \in ExchangeErrors}
    [] OTHER             -> {}

\* the call r resumes with the answer to the call it awaits
ParResume(r, reply) ==
  LET answered == [r EXCEPT !.replies = Append(@, reply)]
  IN  CASE r.pc = "validate" ->
             IF reply.kind = "resolved"
             THEN ParFinish(answered,
                            handleAuthSuccess(r.ops, r.cookies[cookieNames.accessToken],
                                              Absent, NoNumber))
             ELSE ParStartRefresh(answered)
        [] r.pc = "refresh"  -> ParFinish(answered, RefreshReturned(r.ops, reply.tokens))
        [] r.pc = "exchange" ->
             IF reply.kind = "resolved"
             THEN ParFinish(answered, OidcCallbackExchanged(r.ops, reply.tokens))
             ELSE ParFinish(answered, OidcCallbackCatch(r.ops, reply.error))
        [] OTHER             -> r

ConcInit ==
  /\ config \in {c \in Configs : c.strategy = "cookie"}
  /\ handler = ""
  /\ hook = << >>
  /\ par = [p \in Callers |-> ParIdle]
  /\ pure = << >>
  /\ browser = << >>
  /\ pc = "idle"
  /\ cookies = EmptyMap
  /\ url = NoUrl
  /\ ops = << >>
  /\ calls = << >>
  /\ replies = << >>
  /\ result = NoResult
  /\ codeVerifier = Absent
  /\ tokenSet = NoTokenSet
  /\ store = [temp |-> EmptyMap, auth |-> EmptyMap]

\* the cookies of the requests: the three cookies authenticate reads
ParRequestCookies ==
  { c \in LiveRequestCookies :
      /\ c[cookieNames.tempSessionId] = Absent
      /\ c[cookieNames.authSessionId] = Absent }

\* a request arrives while the other call may be in flight
ParCall(p) ==
  /\ par[p].pc = "idle"
  /\ \E c \in ParRequestCookies, u \in LiveRequestUrls :
        par' = [par EXCEPT ![p] = ParAuthenticate(c, u)]
  /\ UNCHANGED <<pure, browser, config, serving>>

\* variant: both calls were handed one cookie adapter
ParAnswer_sharedAdapter(p) ==
  /\ \E reply \in ParReplies(par[p]) :
        par' = [q \in Callers |->
                  IF q = p THEN ParResume(par[p], reply)
                  ELSE [par[q] EXCEPT !.ops = ParResume(par[p], reply).ops]]
  /\ UNCHANGED <<pure, browser, config, serving>>

\* the provider answers the call p awaits
ParAnswer(p) ==
  /\ \E reply \in ParReplies(par[p]) :
        par' = [par EXCEPT ![p] = ParResume(par[p], reply)]
  /\ UNCHANGED <<pure, browser, config, serving>>

\* the caller of p has taken the result or the error
ParReturn(p) ==
  /\ par[p].pc \in {"done", "thrown"}
  /\ par' = [par EXCEPT ![p] = ParIdle]
  /\ UNCHANGED <<pure, browser, config, serving>>

ConcNext ==
  \/ \E p \in Callers : ParCall(p)
  \/ \E p \in Callers : ParAnswer(p)
  \/ \E p \in Callers : ParReturn(p)

ConcSpec == ConcInit /\ [][ConcNext]_vars

(***************************************************************************)
(* The pure helpers of core/config.ts and core/tokens.ts, each applied to  *)
(* an input drawn from the sets below.                                     *)
(***************************************************************************)

\* bound on the length of all_tenants
MaxTenants == 2

PureOrigins ==
  [scheme : {"https://", "http://", "HTTPS://", "HTTP://"},
   host : {"app.example", "localhost:5173"}]

PureCookieConfigs ==
  [prefix : {"aoh"}, domain : {Absent, "example.com"}, path : {Absent, "/app"},
   secure : {<<>>, <<TRUE>>, <<FALSE>>}, httpOnly : {<<>>, <<TRUE>>, <<FALSE>>},
   sameSite : {Absent, "strict"}]

\* Partial<AuthConfig>: each required key absent, empty or given
PartialConfigs ==
  [issuerUrl : {Absent, "", "https://iam.example"}, clientId : {Absent, "", "web"},
   origin : {Absent, "", "https://app.example"}]

Optional(S) == {<< >>} \cup {<<v>> : v \in S}

\* Tenant: tenant_id and roles, both optional
ActiveTenants ==
  [tenant_id : {Absent, "t1"},
   roles : Optional({ << >>, <<"tenant-admin">>, <<"viewer">>,
                      <<"viewer", "tenant-admin">>, <<"tenant-administrator">> })]

RECURSIVE TenantLists(_)
TenantLists(n) ==
  IF n = 0 THEN {<< >>}
  ELSE TenantLists(n - 1)
         \cup {Append(l, [tenant_id |-> id]) :
                 l \in {k \in TenantLists(n - 1) : Len(k) = n - 1},
                 id \in {Absent, "t1", "t2"}}

Payloads ==
  [active_tenant : Optional(ActiveTenants),
   all_tenants : Optional(TenantLists(MaxTenants)),
   realm_access :
     Optional([roles : Optional({<< >>, <<"admin">>, <<"user">>, <<"user", "admin">>})])]

NoPayload == [active_tenant |-> << >>, all_tenants |-> << >>, realm_access |-> << >>]

\* tokens that decode, with every payload, and tokens that do not
PureTokens ==
  [text : {"hdr.u1.sig"}, payload : Payloads]
    \cup [text : {"invalid", "hdr.%%.sig", ""}, payload : {NoPayload}]

NoInput ==
  [kind |-> "", token |-> [text |-> "", payload |-> NoPayload], role |-> "",
   prefix |-> "", cookieConfig |-> CHOOSE c \in PureCookieConfigs : TRUE,
   origin |-> CHOOSE o \in PureOrigins : TRUE,
   partial |-> CHOOSE c \in PartialConfigs : TRUE]

PureInputs ==
  {[NoInput EXCEPT !.kind = "prefix", !.prefix = x] : x \in {"", "aoh", "app", "aoh_app"}}
    \cup {[NoInput EXCEPT !.kind = "options", !.cookieConfig = c, !.origin = o] :
            c \in PureCookieConfigs, o \in PureOrigins}
    \cup {[NoInput EXCEPT !.kind = "partial", !.partial = c] : c \in PartialConfigs}
    \cup {[NoInput EXCEPT !.kind = "token", !.token = t] : t \in PureTokens}
    \cup {[NoInput EXCEPT !.kind = "role", !.token = t, !.role = r] :
            t \in PureTokens, r \in {"admin", "user"}}

PureInit ==
  /\ config \in {c \in Configs : c.strategy = "cookie" /\ c.origin.scheme = "https://"}
  /\ handler = ""
  /\ hook = << >>
  /\ par = << >>
  /\ pure \in {[fn |-> "", input |-> i, output |-> << >>] : i \in PureInputs}
  /\ browser = << >>
  /\ pc = "idle"
  /\ cookies = EmptyMap
  /\ url = NoUrl
  /\ ops = << >>
  /\ calls = << >>
  /\ replies = << >>
  /\ result = NoResult
  /\ codeVerifier = Absent
  /\ tokenSet = NoTokenSet
  /\ store = [temp |-> EmptyMap, auth |-> EmptyMap]

\* the helper fn is applied to an input of the given kind and gives output
Apply(kind, fn, output) ==
  /\ pure.fn = ""
  /\ pure.input.kind = kind
  /\ pure' = [pure EXCEPT !.fn = fn, !.output = output]
  /\ UNCHANGED <<par, browser, config, serving>>

GetCookieNames == Apply("prefix", "getCookieNames", getCookieNames(pure.input.prefix))

BuildCookieOptions ==
  Apply("options", "buildCookieOptions",
        buildCookieOptions(pure.input.cookieConfig, pure.input.origin))

ValidateAuthConfig ==
  Apply("partial", "validateAuthConfig", validateAuthConfig(pure.input.partial))

IsTenantAdmin == Apply("token", "isTenantAdmin", isTenantAdmin(pure.input.token))

GetTenantIds == Apply("token", "getTenantIds", getTenantIds(pure.input.token))

GetActiveTenantId ==
  Apply("token", "getActiveTenantId", getActiveTenantId(pure.input.token))

GetRealmRoles == Apply("token", "getRealmRoles", getRealmRoles(pure.input.token))

HasRealmRole ==
  Apply("role", "hasRealmRole", hasRealmRole(pure.input.token, pure.input.role))

PureNext ==
  \/ GetCookieNames
  \/ BuildCookieOptions
  \/ ValidateAuthConfig
  \/ IsTenantAdmin
  \/ GetTenantIds
  \/ GetActiveTenantId
  \/ GetRealmRoles
  \/ HasRealmRole

PureSpec == PureInit /\ [][PureNext]_vars

(***************************************************************************)
(* handle with excludePaths configured: requests for several paths, some   *)
(* of them excluded from authentication.                                   *)
(***************************************************************************)

\* the prefixes of a path among the strings used as excludePaths entries
\* String.prototype.startsWith
StartsWith(string, prefix) ==
  \/ prefix = ""
  \/ prefix \in
       CASE string = "/public/page" -> {"/public", "/public/page"}
         [] string = "/publication" -> {"/public", "/publication"}
         [] string = "/aoh/api/auth/callback" -> {"/aoh/api/auth/", "/aoh/api/auth/callback"}
         [] OTHER -> {string}

\* variant: a path is excluded only when it equals an entry
isExcludedPath_exactMatch(pathname, excludePaths) ==
  IF excludePaths = << >> THEN FALSE
  ELSE \E i \in 1..Len(excludePaths[1]) : pathname = excludePaths[1][i]

\* excludePaths.some(path => pathname.startsWith(path)), false when undefined
isExcludedPath(pathname, excludePaths) ==
  IF excludePaths = << >> THEN FALSE
  ELSE \E i \in 1..Len(excludePaths[1]) : StartsWith(pathname, excludePaths[1][i])

ExclRequestUrls ==
  [origin : {"https://app.example"},
   pathname : {"/aoh/api/auth/callback", "/public/page", "/publication", "/app"},
   search : { << >>, <<"?", "code", "=", "c1", "&", "session_state", "=", "s1">> }]

\* excludePaths is undefined, empty, or a list of prefixes
ExclInit ==
  /\ config \in {[c EXCEPT !.excludePaths = e] :
                   c \in Configs,
                   e \in { << >>, << << >> >>, << <<"/public">> >>,
                           << <<"/health", "/aoh/api/auth/">> >> }}
  /\ handler = ""
  /\ hook = << >>
  /\ par = << >>
  /\ pure = << >>
  /\ browser = << >>
  /\ pc = "idle"
  /\ cookies = EmptyMap
  /\ url = NoUrl
  /\ ops = << >>
  /\ calls = << >>
  /\ replies = << >>
  /\ result = NoResult
  /\ codeVerifier = Absent
  /\ tokenSet = NoTokenSet
  /\ store = [temp |-> [k \in {"ts1"} |-> "v1"], auth |-> EmptyMap]

\* handle for an excluded path: the request is resolved from inside the try
\* block, before the cookie adapter is made and before any client is created
HandleExcluded ==
  /\ pc = "idle"
  /\ \E u \in ExclRequestUrls :
        /\ isExcludedPath(u.pathname, config.excludePaths)
        /\ url' = u
  /\ handler' = "handle"
  /\ hook' = << "resolve" >>
  /\ Finish(Outcome(ops, Returned, "done"))
  /\ UNCHANGED <<aside, config, cookies, calls, replies, codeVerifier, tokenSet, store>>

\* handle for any other path under the cookie strategy
ExclAuthenticate ==
  /\ pc = "idle"
  /\ config.strategy = "cookie"
  /\ \E c \in LiveRequestCookies, u \in ExclRequestUrls :
        /\ ~isExcludedPath(u.pathname, config.excludePaths)
        /\ AuthenticateCall(c, u)

\* handle for any other path under the store strategy
ExclAuthenticateWithSds ==
  /\ pc = "idle"
  /\ config.strategy = "sds"
  /\ \E c \in LiveRequestCookies, u \in ExclRequestUrls :
        /\ ~isExcludedPath(u.pathname, config.excludePaths)
        /\ AuthenticateWithSdsCall(c, u)

ExclNext ==
  \/ HandleExcluded
  \/ ExclAuthenticate
  \/ \E valid \in BOOLEAN : FetchUserInfoReturns(valid)
  \/ \E newTokens \in TokenSets \cup {NoTokenSet} : RefreshTokenGrantReturns(newTokens)
  \/ \E tokens \in TokenSets : AuthorizationCodeGrantResolves(tokens)
  \/ \E err \in ExchangeErrors : AuthorizationCodeGrantRejects(err)
  \/ ExclAuthenticateWithSds
  \/ \E found \in BOOLEAN : AuthSessionGetAccessTokenReturns(found)
  \/ \E found \in BOOLEAN : TempSessionGetReturns(found)
  \/ \E tokens \in TokenSets : SdsAuthorizationCodeGrantResolves(tokens)
  \/ \E err \in ExchangeErrors : SdsAuthorizationCodeGrantRejects(err)
  \/ \E created \in BOOLEAN : AuthSessionNewReturns(created)
  \/ \E dev \in BOOLEAN : HandleFinally(dev)
  \/ Return

ExclSpec == ExclInit /\ [][ExclNext]_vars

(***************************************************************************)
(* One browser over several requests.  Each request carries the cookies of *)
(* the browser's jar; the cookie operations of the response are applied to *)
(* the jar when the request has been answered.  Page requests pass through *)
(* handle; of the login request only the route is followed, whose verifier *)
(* cookie is written after whatever handle did to an empty jar.            *)
(***************************************************************************)

\* bound on the number of requests the browser sends
MaxRequests == 3

\* the browser applies the Set-Cookie headers of a response in the order
\* they were issued: a deletion, or a cookie that is expired on arrival,
\* removes the cookie
RECURSIVE SetCookies(_, _)
SetCookies(jar, os) ==
  IF os = << >> THEN jar
  ELSE LET o == Head(os)
           next == IF o.name \notin DOMAIN jar THEN jar
                   ELSE [jar EXCEPT ![o.name] =
                           IF o.op = "delete" \/ o.options.maxAge = <<0>>
                           THEN Absent ELSE o.value]
       IN  SetCookies(next, Tail(os))

\* a browser that has not visited the application yet holds no cookie
JarInit ==
  /\ config \in Configs
  /\ handler = ""
  /\ hook = << >>
  /\ par = << >>
  /\ pure = << >>
  /\ browser \in {[jar |-> c, log |-> << >>] :
                    c \in {c \in LiveRequestCookies : \A n \in DOMAIN c : c[n] = Absent}}
  /\ pc = "idle"
  /\ cookies = EmptyMap
  /\ url = NoUrl
  /\ ops = << >>
  /\ calls = << >>
  /\ replies = << >>
  /\ result = NoResult
  /\ codeVerifier = Absent
  /\ tokenSet = NoTokenSet
  /\ store = [temp |-> EmptyMap, auth |-> EmptyMap]

\* a request passes through handle under the cookie strategy
JarAuthenticate ==
  /\ pc = "idle"
  /\ Len(browser.log) < MaxRequests
  /\ config.strategy = "cookie"
  /\ \E u \in LiveRequestUrls : AuthenticateCall(browser.jar, u)

\* a request passes through handle under the store strategy
JarAuthenticateWithSds ==
  /\ pc = "idle"
  /\ Len(browser.log) < MaxRequests
  /\ config.strategy = "sds"
  /\ \E u \in LiveRequestUrls : AuthenticateWithSdsCall(browser.jar, u)

\* the login route runs, once: a verifier is generated once
JarLogin ==
  /\ pc = "idle"
  /\ Len(browser.log) < MaxRequests
  /\ \A i \in 1..Len(browser.log) : browser.log[i].handler # "login"
  /\ \E verifier \in GeneratedVerifiers, connected \in BOOLEAN :
        LoginCall(browser.jar, TRUE, verifier, connected)

\* the request is answered.  The cookie operations reach the browser with
\* the response (applied); whether they do when handle threw the error
\* again instead of resolving the request is left open.
JarReturn(applied) ==
  /\ pc \in {"done", "thrown"}
  /\ (handler \in HookHandlers) => HandleEnded
  /\ applied \/ (hook # << >> /\ hook[Len(hook)] = "rethrow")
  /\ LET jar == IF applied THEN SetCookies(browser.jar, ops) ELSE browser.jar
     IN  browser' = [jar |-> jar,
                     log |-> Append(browser.log,
                                    [handler |-> handler, cookies |-> cookies,
                                     url |-> url, calls |-> calls,
                                     replies |-> replies, result |-> result,
                                     jar |-> jar])]
  /\ pc' = "idle"
  /\ handler' = ""
  /\ hook' = << >>
  /\ cookies' = EmptyMap
  /\ url' = NoUrl
  /\ ops' = << >>
  /\ calls' = << >>
  /\ replies' = << >>
  /\ result' = NoResult
  /\ codeVerifier' = Absent
  /\ tokenSet' = NoTokenSet
  /\ UNCHANGED <<par, pure, config, store>>

JarNext ==
  \/ JarAuthenticate
  \/ \E valid \in BOOLEAN : FetchUserInfoReturns(valid)
  \/ \E newTokens \in TokenSets \cup {NoTokenSet} : RefreshTokenGrantReturns(newTokens)
  \/ \E tokens \in TokenSets : AuthorizationCodeGrantResolves(tokens)
  \/ \E err \in ExchangeErrors : AuthorizationCodeGrantRejects(err)
  \/ JarAuthenticateWithSds
  \/ \E found \in BOOLEAN : AuthSessionGetAccessTokenReturns(found)
  \/ \E found \in BOOLEAN : TempSessionGetReturns(found)
  \/ \E tokens \in TokenSets : SdsAuthorizationCodeGrantResolves(tokens)
  \/ \E err \in ExchangeErrors : SdsAuthorizationCodeGrantRejects(err)
  \/ \E created \in BOOLEAN : AuthSessionNewReturns(created)
  \/ JarLogin
  \/ \E created \in BOOLEAN : LoginTempSessionNewReturns(created)
  \/ \E stored \in BOOLEAN : LoginTempSessionSetReturns(stored)
  \/ \E dev \in BOOLEAN : HandleFinally(dev)
  \/ \E applied \in BOOLEAN : JarReturn(applied)

JarSpec == JarInit /\ [][JarNext]_vars

(***************************************************************************)
(* Properties                                                              *)
(***************************************************************************)

\* positions of the calls to fn issued by the call in progress
CallsOf(fn) == {i \in 1..Len(calls) : calls[i].fn = fn}

\* the call at position i was answered, by a resolution / by a rejection
ResolvedAt(i) == i <= Len(replies) /\ replies[i].kind = "resolved"
RejectedAt(i) == i <= Len(replies) /\ replies[i].kind = "rejected"

\* a delete with maxAge = 0 was issued for the cookie
DeletedExpired(name) ==
  \E i \in 1..Len(ops) :
    /\ ops[i].op = "delete"
    /\ ops[i].name = name
    /\ ops[i].options = [cookieOptions EXCEPT !.maxAge = <<0>>]

FiveSlots ==
  {"aoh_access_token", "aoh_refresh_token", "aoh_code_verifier",
   "aoh_auth_session_id", "aoh_temp_session_id"}

\* validateAccessToken returned true
ValidationSucceeded == \E i \in CallsOf("fetchUserInfo") : ResolvedAt(i)

\* the token set obtained from refresh or code exchange, NoTokenSet if none
ObtainedTokenSet ==
  LET got == {i \in CallsOf("refreshTokenGrant") \cup CallsOf("authorizationCodeGrant") :
                ResolvedAt(i)}
  IN  IF got = {} THEN NoTokenSet ELSE replies[CHOOSE i \in got : TRUE].tokens

\* authenticate (cookie strategy) / authenticateWithSds (store strategy) is
\* serving the request
CookieStrategy == config.strategy = "cookie" /\ handler = "authenticate"
SdsStrategy == config.strategy = "sds" /\ handler = "authenticateWithSds"

\* C1: whenever cookie-backed authenticate has returned Fail, it has issued a
\* delete with maxAge = 0 for each of the five cookie slots.
C1_FailClearsFiveSlots ==
  (CookieStrategy /\ result.kind = "Fail") =>
    \A name \in FiveSlots : DeletedExpired(name)

\* a Fail for a request without credentials and without callback parameters
C1_Witness ==
  /\ CookieStrategy
  /\ result.kind = "Fail"
  /\ calls = << >>
  /\ ~isOidcCallback(url)

\* C2: in both authenticators, an exchange rejected with unauthorized_client
\* ends the call with a thrown error, not with Fail.
C2_UnauthorizedClientPropagates ==
  \A i \in CallsOf("authorizationCodeGrant") :
    (RejectedAt(i) /\ replies[i].error = "unauthorized_client") =>
      (pc = "thrown" /\ result.kind = "Error" /\ result.kind # "Fail")

C2_Witness ==
  /\ SdsStrategy
  /\ \E i \in CallsOf("authorizationCodeGrant") :
       RejectedAt(i) /\ replies[i].error = "unauthorized_client"
  /\ result = Thrown("Invalid client credentials")

\* C3: with both token cookies present and the validation successful,
\* cookie-backed authenticate returns Success carrying the cookie's access
\* token and its decoded claims, and calls neither refresh nor code exchange.
C3_ValidTokenSucceedsWithoutRefreshOrExchange ==
  (CookieStrategy /\ ValidationSucceeded) =>
    /\ Truthy(CookieGet("aoh_access_token")) /\ Truthy(CookieGet("aoh_refresh_token"))
    /\ pc = "done"
    /\ result.kind = "Success"
    /\ result.accessToken = CookieGet("aoh_access_token")
    /\ result.claims = PayloadJson(TokenParts(result.accessToken)[2]).claims
    /\ (result.accessToken = "hdr.u1.sig" => result.claims.sub = "user-1")
    /\ CallsOf("refreshTokenGrant") = {}
    /\ CallsOf("authorizationCodeGrant") = {}

C3_Witness ==
  /\ CookieStrategy
  /\ ValidationSucceeded
  /\ isOidcCallback(url)
  /\ Truthy(CookieGet("aoh_code_verifier"))
  /\ result.kind = "Success"
  /\ result.claims.sub = "user-1"

\* C4: on the path where both tokens are present and validation succeeds,
\* neither a set nor a delete is issued for the access-token cookie or the
\* refresh-token cookie.
C4_ValidPathLeavesTokenCookies ==
  (CookieStrategy /\ ValidationSucceeded) =>
    \A i \in 1..Len(ops) : ops[i].name \notin {"aoh_access_token", "aoh_refresh_token"}

C4_Witness ==
  /\ CookieStrategy
  /\ ValidationSucceeded
  /\ result.kind = "Success"
  /\ Len(ops) = 1
  /\ ops[1].op = "delete" /\ ops[1].name = "aoh_code_verifier"

\* C5: given a refresh-token cookie and an access token that is absent or
\* fails validation, a finished cookie-backed authenticate has made exactly
\* one refresh call and, if the provider accepted it, has returned Success
\* with the newly issued access token and its decoded claims.
C5_RefreshGivesSuccess ==
  ( /\ CookieStrategy
    /\ pc \in {"done", "thrown"}
    /\ Truthy(CookieGet("aoh_refresh_token"))
    /\ ~ValidationSucceeded ) =>
    /\ Cardinality(CallsOf("refreshTokenGrant")) = 1
    /\ \A i \in CallsOf("refreshTokenGrant") :
         ResolvedAt(i) =>
           /\ result.kind = "Success"
           /\ result.accessToken = replies[i].tokens.access_token
           /\ result.claims = jwtDecode(replies[i].tokens.access_token).claims

\* C6: cookie-backed authenticate writes the refresh-token cookie exactly
\* when the token set obtained from refresh or code exchange contains a
\* refresh token, with maxAge 31536000 and the other options unchanged.
C6_RefreshCookieWrittenForOneYear ==
  (CookieStrategy /\ pc \in {"done", "thrown"}) =>
    LET writes == {i \in 1..Len(ops) :
                     ops[i].op = "set" /\ ops[i].name = "aoh_refresh_token"}
    IN  /\ (writes # {}) <=> Truthy(ObtainedTokenSet.refresh_token)
        /\ \A i \in writes :
             /\ ops[i].value = ObtainedTokenSet.refresh_token
             /\ ops[i].options = [cookieOptions EXCEPT !.maxAge = <<31536000>>]

C6_Witness ==
  /\ CookieStrategy
  /\ pc = "done"
  /\ CallsOf("authorizationCodeGrant") # {}
  /\ \E i \in 1..Len(ops) :
       /\ ops[i].op = "set" /\ ops[i].name = "aoh_refresh_token"
       /\ ops[i].value = "rt2"
       /\ ops[i].options.maxAge = <<31536000>>

\* C7: when the refresh call fails, cookie-backed authenticate returns Fail
\* with the session cookies cleared, raises nothing and makes no code
\* exchange, also for a callback URL.
C7_FailedRefreshFails ==
  (CookieStrategy /\ \E i \in CallsOf("refreshTokenGrant") : RejectedAt(i)) =>
    /\ pc = "done"
    /\ result = AuthResultFail
    /\ \A name \in FiveSlots : DeletedExpired(name)
    /\ CallsOf("authorizationCodeGrant") = {}

C7_Witness ==
  /\ CookieStrategy
  /\ \E i \in CallsOf("refreshTokenGrant") : RejectedAt(i)
  /\ isOidcCallback(url)
  /\ Truthy(CookieGet("aoh_code_verifier"))
  /\ result = AuthResultFail

\* C8: a callback request without verifier cookie and without tokens gets
\* Fail from cookie-backed authenticate, and the code exchange is not called.
C8_CallbackWithoutVerifierFails ==
  ( /\ CookieStrategy
    /\ pc # "idle"
    /\ isOidcCallback(url)
    /\ ~Truthy(CookieGet("aoh_code_verifier"))
    /\ ~Truthy(CookieGet("aoh_access_token"))
    /\ ~Truthy(CookieGet("aoh_refresh_token")) ) =>
    /\ pc = "done"
    /\ result = AuthResultFail
    /\ CallsOf("authorizationCodeGrant") = {}

C8_Witness ==
  /\ CookieStrategy
  /\ pc = "done"
  /\ isOidcCallback(url)
  /\ CookieGet("aoh_code_verifier") = Absent
  /\ CookieGet("aoh_access_token") = Absent
  /\ CookieGet("aoh_refresh_token") = Absent
  /\ result = AuthResultFail

\* C9 as stated: cookie-backed authenticate reaches the code exchange only
\* when neither the access-token cookie nor the refresh-token cookie is
\* present.
C9_ExchangeOnlyWithoutAnyToken ==
  (CookieStrategy /\ CallsOf("authorizationCodeGrant") # {}) =>
    /\ ~Truthy(CookieGet("aoh_access_token"))
    /\ ~Truthy(CookieGet("aoh_refresh_token"))

\* C9 amended: cookie-backed authenticate reaches the code exchange only
\* when the refresh-token cookie is absent or empty, and then only for a
\* callback URL; an access-token cookie alone does not keep it from it.
C9_ExchangeOnlyWithoutRefreshToken ==
  (CookieStrategy /\ CallsOf("authorizationCodeGrant") # {}) =>
    /\ ~Truthy(CookieGet("aoh_refresh_token"))
    /\ isOidcCallback(url)

C9_Witness ==
  /\ CookieStrategy
  /\ CallsOf("authorizationCodeGrant") # {}
  /\ Truthy(CookieGet("aoh_access_token"))
  /\ CookieGet("aoh_refresh_token") = Absent

\* C10: in both authenticators, an exchange rejected with invalid_grant or
\* any error other than unauthorized_client ends the call with Fail, the
\* failure-path cookies cleared (all five slots under the cookie strategy,
\* the two session-id slots under the store strategy), and nothing thrown.
C10_OrdinaryExchangeErrorFails ==
  \A i \in CallsOf("authorizationCodeGrant") :
    (RejectedAt(i) /\ replies[i].error # "unauthorized_client") =>
      /\ pc = "done"
      /\ result = AuthResultFail
      /\ DeletedExpired("aoh_auth_session_id")
      /\ DeletedExpired("aoh_temp_session_id")
      /\ CookieStrategy => \A name \in FiveSlots : DeletedExpired(name)

C10_Witness ==
  /\ CookieStrategy
  /\ \E i \in CallsOf("authorizationCodeGrant") :
       RejectedAt(i) /\ replies[i].error = "invalid_grant"
  /\ result = AuthResultFail

\* C11: whenever cookie-backed authenticate has returned Success (token
\* already valid, refreshed, or code exchanged), it has issued a delete with
\* maxAge = 0 for the code-verifier cookie.
C11_SuccessClearsVerifier ==
  (CookieStrategy /\ result.kind = "Success") =>
    /\ DeletedExpired("aoh_code_verifier")
    /\ ops[Len(ops)].op = "delete" /\ ops[Len(ops)].name = "aoh_code_verifier"

\* a Success after a refresh, the request having carried a verifier cookie
C11_Witness ==
  /\ CookieStrategy
  /\ result.kind = "Success"
  /\ CookieGet("aoh_code_verifier") = "v1"
  /\ \E i \in CallsOf("refreshTokenGrant") : ResolvedAt(i)

\* C12 as stated: once cookie-backed authenticate has finished, the
\* access-token cookie has been written exactly when the token set obtained
\* carries an expiry, and then with that expiry as maxAge.
C12_AccessCookieWrittenIffExpiry ==
  (CookieStrategy /\ pc \in {"done", "thrown"}) =>
    LET writes == {i \in 1..Len(ops) :
                     ops[i].op = "set" /\ ops[i].name = "aoh_access_token"}
    IN  /\ (writes # {}) <=> (ObtainedTokenSet.expires_in # NoNumber)
        /\ \A i \in writes :
             /\ ops[i].value = ObtainedTokenSet.access_token
             /\ ops[i].options = [cookieOptions EXCEPT
                                    !.maxAge = ObtainedTokenSet.expires_in]

\* C13: in both authenticators the callback URL handed to the code exchange
\* is the configured origin followed by the path and the query string of the
\* request; scheme and host of the incoming URL are not used.
C13_CallbackUrlFromConfiguredOrigin ==
  \A i \in CallsOf("authorizationCodeGrant") :
    /\ calls[i].a = config.origin.scheme \o config.origin.host
                      \o url.pathname \o Concat(url.search)
    /\ calls[i].a \in
         { "https://app.example/aoh/api/auth/callback?code=c1&session_state=s1",
           "http://app.example/aoh/api/auth/callback?code=c1&session_state=s1",
           "https://app.example/aoh/api/auth/callback?session_state=&code=",
           "http://app.example/aoh/api/auth/callback?session_state=&code=" }

\* the exchange is called for a request that came in under a foreign origin
C13_Witness ==
  /\ SdsStrategy
  /\ url.origin = "http://evil.example"
  /\ config.origin.scheme = "https://"
  /\ \E i \in CallsOf("authorizationCodeGrant") :
       calls[i].a = "https://app.example/aoh/api/auth/callback?code=c1&session_state=s1"

\* the search strings that carry both parameters
CallbackSearches ==
  { <<"?", "code", "=", "c1", "&", "session_state", "=", "s1">>,
    <<"?", "session_state", "=", "", "&", "code", "=", "">> }

\* C14: isOidcCallback is true exactly for the URLs whose query carries both
\* code and session_state, whatever their values (empty ones included); the
\* authenticators enter the callback branch only for such URLs.
C14_CallbackIffBothParameters ==
  /\ \A u \in RequestUrls : isOidcCallback(u) <=> (u.search \in CallbackSearches)
  /\ (pc # "idle" /\ url.search \notin CallbackSearches) =>
       (CallsOf("authorizationCodeGrant") = {} /\ CallsOf("tempSessionGet") = {})
  /\ ( /\ pc # "idle"
       /\ url.search \in CallbackSearches
       /\ ~Truthy(CookieGet("aoh_refresh_token"))
       /\ CookieStrategy
       /\ Truthy(CookieGet("aoh_code_verifier")) ) =>
       (CallsOf("authorizationCodeGrant") # {})

\* a request whose two parameters are empty is taken as a callback
C14_Witness ==
  /\ CookieStrategy
  /\ url.search = <<"?", "session_state", "=", "", "&", "code", "=", "">>
  /\ CallsOf("authorizationCodeGrant") # {}

\* the store answered authSessionGetAccessToken with the session's token
SessionTokenReturned == \E i \in CallsOf("authSessionGetAccessToken") : ResolvedAt(i)

\* the token the store answered with
SessionToken ==
  replies[CHOOSE i \in CallsOf("authSessionGetAccessToken") : ResolvedAt(i)].value

\* the auth-session cookie was set to id, with the plain cookie options
AuthSessionCookieSetTo(id) ==
  \E i \in 1..Len(ops) :
    /\ ops[i].op = "set"
    /\ ops[i].name = "aoh_auth_session_id"
    /\ ops[i].value = id
    /\ ops[i].options = cookieOptions
    /\ ops[i].options.maxAge = << >>

\* C15 as stated: with an auth-session cookie for which the store returns an
\* access token, store-backed authenticate returns Success with that token
\* decoded, sets the auth-session cookie to the same id without maxAge,
\* deletes the temp-session cookie, and calls neither the code exchange nor
\* authSessionNew, also for a callback URL.
C15_SessionTokenGivesSuccess ==
  (SdsStrategy /\ SessionTokenReturned) =>
    /\ pc = "done"
    /\ result.kind = "Success"
    /\ result.accessToken = SessionToken
    /\ result.claims = jwtDecode(SessionToken).claims
    /\ AuthSessionCookieSetTo(CookieGet("aoh_auth_session_id"))
    /\ DeletedExpired("aoh_temp_session_id")
    /\ CallsOf("authorizationCodeGrant") = {}
    /\ CallsOf("authSessionNew") = {}

\* C15 amended: with an auth-session cookie for which the store returns an
\* access token, store-backed authenticate sets the auth-session cookie to
\* the same id without maxAge, deletes the temp-session cookie and calls
\* neither the code exchange nor authSessionNew, also for a callback URL; it
\* returns Success with the token decoded when the token can be decoded, and
\* Fail with both session cookies deleted when it cannot.
C15_DecodableSessionTokenGivesSuccess ==
  (SdsStrategy /\ SessionTokenReturned) =>
    /\ pc = "done"
    /\ AuthSessionCookieSetTo(CookieGet("aoh_auth_session_id"))
    /\ DeletedExpired("aoh_temp_session_id")
    /\ CallsOf("authorizationCodeGrant") = {}
    /\ CallsOf("authSessionNew") = {}
    /\ CallsOf("tempSessionGet") = {}
    /\ IF jwtDecode(SessionToken).ok
       THEN /\ result.kind = "Success"
            /\ result.accessToken = SessionToken
            /\ result.claims = jwtDecode(SessionToken).claims
            /\ result.claims.sub = "user-2"
       ELSE /\ result = AuthResultFail
            /\ DeletedExpired("aoh_auth_session_id")

\* a stored session answers a request that also is a callback with a temp session
C15_Witness ==
  /\ SdsStrategy
  /\ SessionTokenReturned
  /\ isOidcCallback(url)
  /\ Truthy(CookieGet("aoh_temp_session_id"))
  /\ result.kind = "Success"
  /\ result.accessToken = "hdr.u2.sig"

\* C16: when the store rejects the auth-session id of the cookie, store-backed
\* authenticate deletes the auth-session and temp-session cookies, returns
\* Fail without throwing, and does not enter the callback branch, also for a
\* callback URL.
C16_RejectedSessionFails ==
  (SdsStrategy /\ \E i \in CallsOf("authSessionGetAccessToken") : RejectedAt(i)) =>
    /\ pc = "done"
    /\ result = AuthResultFail
    /\ DeletedExpired("aoh_auth_session_id")
    /\ DeletedExpired("aoh_temp_session_id")
    /\ Len(calls) = 1
    /\ CallsOf("tempSessionGet") = {}
    /\ CallsOf("authorizationCodeGrant") = {}
    /\ CallsOf("authSessionNew") = {}

C16_Witness ==
  /\ SdsStrategy
  /\ \E i \in CallsOf("authSessionGetAccessToken") : RejectedAt(i)
  /\ isOidcCallback(url)
  /\ Truthy(CookieGet("aoh_temp_session_id"))
  /\ result = AuthResultFail

\* the request is served by the callback branch of authenticateWithSds
SdsCallbackBranch ==
  /\ SdsStrategy
  /\ pc # "idle"
  /\ ~Truthy(CookieGet("aoh_auth_session_id"))
  /\ isOidcCallback(url)

\* C17: in the store-backed callback the code exchange is called only after
\* tempSessionGet answered with the verifier, which is the one handed to the
\* exchange; without temp-session cookie the store is not asked; without the
\* cookie or with tempSessionGet rejected the call returns Fail and the
\* exchange is not called.
C17_ExchangeOnlyAfterVerifierRead ==
  SdsStrategy =>
    /\ \A i \in CallsOf("authorizationCodeGrant") :
         /\ i > 1
         /\ calls[i - 1].fn = "tempSessionGet"
         /\ calls[i - 1].a = CookieGet("aoh_temp_session_id")
         /\ calls[i - 1].b = "code_verifier"
         /\ ResolvedAt(i - 1)
         /\ calls[i].b = replies[i - 1].value
    /\ (SdsCallbackBranch /\ ~Truthy(CookieGet("aoh_temp_session_id"))) =>
         (calls = << >> /\ pc = "done" /\ result = AuthResultFail)
    /\ (SdsCallbackBranch /\ \E j \in CallsOf("tempSessionGet") : RejectedAt(j)) =>
         ( /\ CallsOf("authorizationCodeGrant") = {}
           /\ pc = "done"
           /\ result = AuthResultFail )

\* the verifier read from the store was handed to the exchange
C17_Witness ==
  /\ SdsStrategy
  /\ \E i \in CallsOf("authorizationCodeGrant") :
       calls[i].b = "v1" /\ replies[i - 1].value = "v1"

\* the code exchange of the store-backed callback resolved
SdsExchanged ==
  /\ SdsStrategy
  /\ pc \in {"done", "thrown"}
  /\ \E i \in CallsOf("authorizationCodeGrant") : ResolvedAt(i)

\* C18 as stated: after a successful code exchange the store-backed callback
\* has created exactly one auth session holding the exchanged access and
\* refresh tokens, has set the auth-session cookie to the id the store
\* returned, and has returned Success carrying the exchanged access token.
C18_ExchangeCreatesSessionAndSucceeds ==
  SdsExchanged =>
    /\ Cardinality(CallsOf("authSessionNew")) = 1
    /\ \A j \in CallsOf("authSessionNew") :
         /\ calls[j].a = ObtainedTokenSet.access_token
         /\ calls[j].b = ObtainedTokenSet.refresh_token
         /\ ResolvedAt(j)
         /\ store.auth[replies[j].value] =
              [access_token |-> ObtainedTokenSet.access_token,
               refresh_token |-> ObtainedTokenSet.refresh_token]
         /\ AuthSessionCookieSetTo(replies[j].value)
    /\ result.kind = "Success"
    /\ result.accessToken = ObtainedTokenSet.access_token

\* C18 amended: after a successful code exchange the store-backed callback
\* has called authSessionNew exactly once, with the exchanged access and
\* refresh tokens; when the store created the session, the session holds
\* these tokens and the auth-session cookie has been set to the id the store
\* returned; Success, carrying the exchanged access token, is returned when
\* moreover that token can be decoded, and Fail otherwise.
C18_ExchangeCreatesSessionWhenStoreAccepts ==
  SdsExchanged =>
    /\ Cardinality(CallsOf("authSessionNew")) = 1
    /\ \A j \in CallsOf("authSessionNew") :
         /\ calls[j].a = ObtainedTokenSet.access_token
         /\ calls[j].b = ObtainedTokenSet.refresh_token
         /\ ResolvedAt(j) =>
              /\ store.auth[replies[j].value] =
                   [access_token |-> ObtainedTokenSet.access_token,
                    refresh_token |-> ObtainedTokenSet.refresh_token]
              /\ AuthSessionCookieSetTo(replies[j].value)
         /\ IF ResolvedAt(j) /\ jwtDecode(ObtainedTokenSet.access_token).ok
            THEN /\ result.kind = "Success"
                 /\ result.accessToken = ObtainedTokenSet.access_token
            ELSE result = AuthResultFail

C18_Witness ==
  /\ SdsExchanged
  /\ \E j \in CallsOf("authSessionNew") :
       /\ ResolvedAt(j)
       /\ replies[j].value = "as1"
       /\ AuthSessionCookieSetTo("as1")
  /\ store.auth["as1"] = [access_token |-> "hdr.u2.sig", refresh_token |-> "rt2"]
  /\ result.kind = "Success"
  /\ result.accessToken = "hdr.u2.sig"

\* C19 as stated: under either strategy a Fail is accompanied by the
\* deletion, with maxAge = 0, of all five cookie slots.
C19_FailClearsFiveSlotsUnderBothStrategies ==
  (result.kind = "Fail") => \A name \in FiveSlots : DeletedExpired(name)

\* C19 amended: a Fail of the cookie-backed authenticator is accompanied by
\* the deletion of all five cookie slots; a Fail of the store-backed
\* authenticator is accompanied by the deletion of the auth-session id and
\* temp-session id cookies only, the access-token, refresh-token and
\* code-verifier cookies being left as they are.
C19_FailClearsSlotsOfTheStrategy ==
  (result.kind = "Fail") =>
    IF CookieStrategy
    THEN \A name \in FiveSlots : DeletedExpired(name)
    ELSE /\ DeletedExpired("aoh_auth_session_id")
         /\ DeletedExpired("aoh_temp_session_id")
         /\ \A i \in 1..Len(ops) :
              ops[i].name \in {"aoh_auth_session_id", "aoh_temp_session_id"}

\* a store-backed Fail for a request that carries token and verifier cookies
C19_Witness ==
  /\ SdsStrategy
  /\ result.kind = "Fail"
  /\ Truthy(CookieGet("aoh_access_token"))
  /\ Truthy(CookieGet("aoh_refresh_token"))
  /\ Truthy(CookieGet("aoh_code_verifier"))

\* the cookies that carry a token or the verifier
TokenCookies == {"aoh_access_token", "aoh_refresh_token", "aoh_code_verifier"}

\* C20: under the store strategy no operation (authenticateWithSds,
\* storeCodeVerifierInSds, destroySdsSession, and the login, logout and
\* refresh routes) sets the access-token, refresh-token or code-verifier
\* cookie; the only cookies set are the temp-session id and the auth-session
\* id.
C20_StoreStrategySetsOnlySessionIds ==
  (config.strategy = "sds") =>
    \A i \in 1..Len(ops) :
      (ops[i].op = "set") =>
        /\ ops[i].name \notin TokenCookies
        /\ ops[i].name \in {"aoh_temp_session_id", "aoh_auth_session_id"}
        /\ ops[i].value \notin {"hdr.u2.sig", "invalid", "rt2", "v1"}

\* the login route has stored the verifier and set the temp-session cookie
C20_Witness ==
  /\ config.strategy = "sds"
  /\ handler = "login"
  /\ pc = "done"
  /\ codeVerifier = "v1"
  /\ store.temp["ts1"] = "v1"
  /\ \E i \in 1..Len(ops) :
       ops[i].op = "set" /\ ops[i].name = "aoh_temp_session_id" /\ ops[i].value = "ts1"

\* C21: destroySdsSession calls authSessionDestroy, once and for the id of
\* the cookie, exactly when the request carries an auth-session cookie; it
\* never throws, also when the store rejects the call; and when it has
\* returned it has deleted the auth-session cookie with maxAge = 0.
C21_DestroyAlwaysClearsCookie ==
  (handler = "destroySdsSession") =>
    /\ pc # "thrown"
    /\ (CallsOf("authSessionDestroy") # {}) <=> Truthy(CookieGet("aoh_auth_session_id"))
    /\ \A i \in 1..Len(calls) :
         /\ i = 1
         /\ calls[i] = Call("authSessionDestroy", CookieGet("aoh_auth_session_id"), "")
    /\ (Truthy(CookieGet("aoh_auth_session_id")) /\ Len(replies) = 1) => pc = "done"
    /\ (pc = "done") =>
         /\ result = Returned
         /\ DeletedExpired("aoh_auth_session_id")
         /\ Len(ops) = 1

\* the store rejected the destruction and the cookie is deleted all the same
C21_Witness ==
  /\ handler = "destroySdsSession"
  /\ pc = "done"
  /\ \E i \in CallsOf("authSessionDestroy") : RejectedAt(i)
  /\ DeletedExpired("aoh_auth_session_id")

\* a request of the store-backed logout that carries an auth session
StoreLogout ==
  /\ config.strategy = "sds"
  /\ handler \in {"destroySdsSession", "logout"}
  /\ Truthy(CookieGet("aoh_auth_session_id"))

\* a cookie operation on the auth-session cookie is issued in this step
AuthSessionCookieCleared ==
  /\ Len(ops') > Len(ops)
  /\ \E i \in (Len(ops) + 1)..Len(ops') :
       ops'[i].op = "delete" /\ ops'[i].name = "aoh_auth_session_id"

\* C22: at store-backed logout, in destroySdsSession and in the logout
\* route, the auth-session cookie is deleted only after the authSessionDestroy
\* call for the session has been made and has been answered.
C22_DestroyBeforeCookieCleared ==
  [][ (StoreLogout' /\ AuthSessionCookieCleared) =>
        \E i \in CallsOf("authSessionDestroy") : i <= Len(replies') ]_vars

\* how often handle did e
HookCount(e) == Cardinality({i \in 1..Len(hook) : hook[i] = e})

\* the store clients a route obtained: createSdsClient calls that resolved
RouteClients == {i \in CallsOf("createSdsClient") : ResolvedAt(i)}

\* C23: a store client obtained from createSdsClient is closed exactly once
\* on every exit path: when handle has ended, whether the authenticator
\* returned Success or Fail or threw, and there before the request is
\* resolved; and when the login, logout or refresh route has returned or
\* thrown.  Where no client was obtained nothing is closed.
C23_StoreClientClosedOnEveryExit ==
  /\ HandleEnded =>
       /\ HookCount("close") = HookCount("createSdsClient")
       /\ HookCount("createSdsClient") = (IF handler = "authenticateWithSds" THEN 1 ELSE 0)
       /\ \A i, j \in 1..Len(hook) :
            (hook[i] = "close" /\ hook[j] \in {"resolve", "rethrow"}) => i < j
  /\ (handler \in {"login", "logout", "refresh"} /\ pc \in {"done", "thrown"}) =>
       /\ Cardinality(CallsOf("close")) = Cardinality(RouteClients)
       /\ Cardinality(RouteClients) <= 1
       /\ \A i \in CallsOf("close") : i = Len(calls) /\ ResolvedAt(i)

\* the authenticator threw, handle closed the client and threw the error again
C23_Witness ==
  /\ handler = "authenticateWithSds"
  /\ pc = "thrown"
  /\ hook = << "createSdsClient", "authenticateWithSds", "logger.error",
               "NODE_ENV.development", "close", "rethrow" >>

\* the refresh route closed its client after the store rejected the session
C23_RouteWitness ==
  /\ handler = "refresh"
  /\ pc = "done"
  /\ \E i \in CallsOf("authSessionGetAccessToken") : RejectedAt(i)
  /\ CallsOf("close") # {}

\* an authenticator has been called and has not returned or thrown yet
AuthenticatorRunning ==
  /\ handler \in {"authenticate", "authenticateWithSds"}
  /\ pc \notin {"idle", "done", "thrown"}

\* the authenticator returned Success or Fail, or threw an error
AuthenticatorEnded ==
  /\ handler \in {"authenticate", "authenticateWithSds"}
  /\ \/ pc = "done" /\ result.kind \in {"Success", "Fail"}
     \/ pc = "thrown" /\ result.kind = "Error"

\* no call is made twice by one authenticator call, and authenticate does
\* not make both a refresh and a code exchange
NoRetries ==
  /\ (handler = "authenticate") =>
       /\ Cardinality(CallsOf("fetchUserInfo")) <= 1
       /\ Cardinality(CallsOf("refreshTokenGrant")) <= 1
       /\ Cardinality(CallsOf("authorizationCodeGrant")) <= 1
       /\ CallsOf("refreshTokenGrant") = {} \/ CallsOf("authorizationCodeGrant") = {}
       /\ Len(calls) <= 2
       /\ pc \in {"done", "thrown"} => AuthenticatorEnded
  /\ (handler = "authenticateWithSds") =>
       /\ Cardinality(CallsOf("authSessionGetAccessToken")) <= 1
       /\ Cardinality(CallsOf("tempSessionGet")) <= 1
       /\ Cardinality(CallsOf("authorizationCodeGrant")) <= 1
       /\ Cardinality(CallsOf("authSessionNew")) <= 1
       /\ Len(calls) <= 3
       /\ pc \in {"done", "thrown"} => AuthenticatorEnded

\* C24: one authenticate call validates at most once, refreshes at most once,
\* exchanges a code at most once and never both refreshes and exchanges; one
\* authenticateWithSds call makes at most one call each of
\* authSessionGetAccessToken, tempSessionGet, the exchange and authSessionNew;
\* and every call of an authenticator ends, with Success, Fail or an error
\* thrown to the caller.
C24_NoRetriesAndTermination ==
  /\ []NoRetries
  /\ AuthenticatorRunning ~> AuthenticatorEnded

\* authenticate has ended after its two calls, a validation and a refresh
C24_Witness ==
  /\ handler = "authenticate"
  /\ pc = "done"
  /\ Len(calls) = 2
  /\ calls[1].fn = "fetchUserInfo"
  /\ calls[2].fn = "refreshTokenGrant"
  /\ isOidcCallback(url)

(***************************************************************************)
(* C25                                                                     *)
(***************************************************************************)

\* what authenticate(c, u) gives when it runs by itself and the provider
\* answers its calls with rs, in order
Alone(c, u, rs) ==
  LET accessToken  == c[cookieNames.accessToken]
      refreshToken == c[cookieNames.refreshToken]
      verifier     == c[cookieNames.codeVerifier]
      case         == Decision(accessToken, refreshToken, u)
      last         == rs[Len(rs)]
  IN  CASE case = "validate" /\ ValidateReachesProvider(accessToken)
             /\ rs[1].kind = "resolved" ->
             handleAuthSuccess(<< >>, accessToken, Absent, NoNumber)
        [] case = "validate" /\ ~(ValidateReachesProvider(accessToken)
                                    /\ rs[1].kind = "resolved") ->
             RefreshReturned(<< >>, last.tokens)
        [] case = "refresh" -> RefreshReturned(<< >>, last.tokens)
        [] case = "callback" /\ Truthy(verifier) /\ last.kind = "resolved" ->
             OidcCallbackExchanged(<< >>, last.tokens)
        [] case = "callback" /\ Truthy(verifier) /\ last.kind = "rejected" ->
             OidcCallbackCatch(<< >>, last.error)
        [] OTHER -> handleAuthFailure(<< >>)

ParEnded(p) == par[p].pc \in {"done", "thrown"}

Applied(fn) == pure # << >> /\ pure.fn = fn

\* C26: for every prefix, getCookieNames gives five names that differ from
\* one another, each the prefix, an underscore and the name of its slot.
C26_FiveDistinctPrefixedNames ==
  Applied("getCookieNames") =>
    LET names  == pure.output
        prefix == pure.input.prefix
    IN  /\ names.accessToken   = prefix \o "_" \o "access_token"
        /\ names.refreshToken  = prefix \o "_" \o "refresh_token"
        /\ names.codeVerifier  = prefix \o "_" \o "code_verifier"
        /\ names.tempSessionId = prefix \o "_" \o "temp_session_id"
        /\ names.authSessionId = prefix \o "_" \o "auth_session_id"
        /\ DOMAIN names = {"accessToken", "refreshToken", "codeVerifier",
                           "tempSessionId", "authSessionId"}
        /\ Cardinality({names[k] : k \in DOMAIN names}) = 5

C26_Witness ==
  /\ Applied("getCookieNames")
  /\ pure.input.prefix = "aoh_app"
  /\ pure.output.authSessionId = "aoh_app_auth_session_id"

(***************************************************************************)
(* C27                                                                     *)
(***************************************************************************)

RequiredKeys == {"issuerUrl", "clientId", "origin"}

\* C28: validateAuthConfig gives exactly the keys among issuerUrl, clientId
\* and origin that are absent or empty, each once, and the empty list
\* exactly when all three are present.
C28_ExactlyTheMissingKeys ==
  Applied("validateAuthConfig") =>
    LET missing == pure.output
        partial == pure.input.partial
    IN  /\ \A k \in RequiredKeys :
             (\E i \in 1..Len(missing) : missing[i] = k) <=> partial[k] \in {Absent, ""}
        /\ \A i \in 1..Len(missing) : missing[i] \in RequiredKeys
        /\ \A i, j \in 1..Len(missing) : missing[i] = missing[j] => i = j
        /\ missing = << >> <=> \A k \in RequiredKeys : partial[k] \notin {Absent, ""}

\* an empty clientId and an absent origin are both reported
C28_Witness ==
  /\ Applied("validateAuthConfig")
  /\ pure.input.partial.issuerUrl = "https://iam.example"
  /\ pure.input.partial.clientId = ""
  /\ pure.input.partial.origin = Absent
  /\ pure.output = <<"clientId", "origin">>

(***************************************************************************)
(* C29                                                                     *)
(***************************************************************************)

\* the token of the input decodes
Decodes == jwtDecode(pure.input.token.text).ok

\* the roles of the active tenant, none when the claim or its roles are absent
ActiveTenantRoles ==
  LET active == pure.input.token.payload.active_tenant
  IN  IF active = << >> \/ active[1].roles = << >> THEN {}
      ELSE {active[1].roles[1][i] : i \in 1..Len(active[1].roles[1])}

\* C29: isTenantAdmin never throws; it returns true exactly when the token
\* decodes and tenant-admin is one of active_tenant.roles, hence false for a
\* token that does not decode or has no active_tenant or no roles in it.
C29_TenantAdminIffRolePresent ==
  Applied("isTenantAdmin") =>
    /\ ~pure.output.threw
    /\ pure.output.value = TRUE <=> (Decodes /\ "tenant-admin" \in ActiveTenantRoles)
    /\ pure.output.value \in BOOLEAN

\* tenant-admin is found behind another role
C29_Witness ==
  /\ Applied("isTenantAdmin")
  /\ Decodes
  /\ ActiveTenantRoles = {"viewer", "tenant-admin"}
  /\ pure.output.value = TRUE

(***************************************************************************)
(* C30                                                                     *)
(***************************************************************************)

\* C30: getTenantIds, getActiveTenantId, getRealmRoles and hasRealmRole never
\* throw.  getTenantIds gives the tenant ids of all_tenants in source order
\* (the k-th tenant that has an id gives the k-th id).
\* For a token that does not decode, or without the claim read, getTenantIds
\* gives [], getActiveTenantId undefined, getRealmRoles [] and hasRealmRole
\* false.
C30_AccessorsDegradeToDefaults ==
  LET payload  == pure.input.token.payload
      all      == payload.all_tenants
      active   == payload.active_tenant
      realm    == payload.realm_access
      value    == pure.output.value
      present  == {i \in 1..Len(all[1]) : all[1][i].tenant_id # Absent}
      noRealm  == ~Decodes \/ realm = << >> \/ realm[1].roles = << >>
  IN  /\ Applied("getTenantIds") =>
           /\ ~pure.output.threw
           /\ (~Decodes \/ all = << >>) => value = << >>
           /\ (Decodes /\ all # << >>) =>
                /\ Len(value) = Cardinality(present)
                /\ \A i \in present :
                     value[Cardinality({k \in present : k <= i})] = all[1][i].tenant_id
      /\ Applied("getActiveTenantId") =>
           /\ ~pure.output.threw
           /\ (~Decodes \/ active = << >>) => value = Absent
           /\ (Decodes /\ active # << >>) => value = active[1].tenant_id
      /\ Applied("getRealmRoles") =>
           /\ ~pure.output.threw
           /\ noRealm => value = << >>
           /\ ~noRealm => value = realm[1].roles[1]
      /\ Applied("hasRealmRole") =>
           /\ ~pure.output.threw
           /\ noRealm => value = FALSE
           /\ ~noRealm => (value = TRUE <=>
                             \E i \in 1..Len(realm[1].roles[1]) :
                                realm[1].roles[1][i] = pure.input.role)

\* two tenants in source order
C30_Witness ==
  /\ Applied("getTenantIds")
  /\ Decodes
  /\ pure.input.token.payload.all_tenants = <<<<[tenant_id |-> "t2"], [tenant_id |-> "t1"]>>>>
  /\ pure.output.value = <<"t2", "t1">>

\* a token that does not decode, asked for a role
C30_UndecodableWitness ==
  /\ Applied("hasRealmRole")
  /\ pure.input.token.text = "invalid"
  /\ pure.output = AccessorReturns(FALSE)

(***************************************************************************)
(* C31                                                                     *)
(***************************************************************************)

\* the store holds an auth session after this step that it did not hold before
AuthSessionCreated == DOMAIN store'.auth \ DOMAIN store.auth # {}

\* after this step the call has asked the store to destroy the session of
\* the request's auth-session cookie
DestroyRequested ==
  \E i \in 1..Len(calls') :
    calls'[i] = Call("authSessionDestroy", cookies'["aoh_auth_session_id"], "")

\* this step ends the store-backed logout route with its redirect, for a
\* request that carries an auth session
LogoutHandled ==
  /\ config.strategy = "sds"
  /\ handler' = "logout"
  /\ pc # "done" /\ pc' = "done"
  /\ Truthy(cookies'["aoh_auth_session_id"])

\* in this step the store-backed refresh route learns from the store that
\* the session of the request is not valid
RefreshDetectsInvalidSession ==
  /\ handler = "refresh"
  /\ pc = "refresh.authSessionGetAccessToken"
  /\ Len(replies') > Len(replies)
  /\ replies'[Len(replies) + 1].kind = "rejected"

\* C31: over any sequence of operations, an auth session comes into the
\* store only in a callback of authenticateWithSds whose code exchange
\* resolved; the logout route asks the store to destroy the session of the
\* request; and so does the refresh route when the store tells it that the
\* session is not valid.
C31_AuthSessionLifecycle ==
  [][ /\ AuthSessionCreated =>
           /\ handler = "authenticateWithSds"
           /\ pc = "authSessionNew"
           /\ \E i \in CallsOf("authorizationCodeGrant") : ResolvedAt(i)
      /\ LogoutHandled => DestroyRequested
      /\ RefreshDetectsInvalidSession => DestroyRequested ]_vars

\* the two parts of C31 the code keeps: creation at the callback only, and
\* the destroy request of the logout route
C31_CreatedAtCallbackDestroyedAtLogout ==
  [][ /\ AuthSessionCreated =>
           /\ handler = "authenticateWithSds"
           /\ pc = "authSessionNew"
           /\ \E i \in CallsOf("authorizationCodeGrant") : ResolvedAt(i)
      /\ LogoutHandled => DestroyRequested ]_vars

(***************************************************************************)
(* C32                                                                     *)
(***************************************************************************)

\* handle has ended for a request whose authenticator (or createSdsClient)
\* threw
HandledFatalError == handler \in HookHandlers /\ pc = "thrown" /\ HandleEnded

\* C32: when the authenticator throws, handle logs the error; in development
\* mode it throws the error again and does not resolve the request; in any
\* other mode it resolves the request, once, and in both modes the locals are
\* never given an authResult, so none that says Success.
C32_FatalErrorRethrownOnlyInDevelopment ==
  HandledFatalError =>
    /\ HookCount("logger.error") = 1
    /\ HookCount("setAuthLocals") = 0
    /\ HookCount("NODE_ENV.development") = 1 =>
         /\ hook[Len(hook)] = "rethrow"
         /\ HookCount("resolve") = 0
    /\ HookCount("NODE_ENV.development") = 0 =>
         /\ hook[Len(hook)] = "resolve"
         /\ HookCount("resolve") = 1
         /\ HookCount("rethrow") = 0

\* outside development the cookie-backed authenticator threw on a refreshed
\* token that does not decode, and the request was resolved
C32_Witness ==
  /\ handler = "authenticate"
  /\ pc = "thrown"
  /\ result.message = "InvalidTokenError"
  /\ hook = << "authenticate", "logger.error", "NODE_ENV.other", "resolve" >>

(***************************************************************************)
(* C33                                                                     *)
(***************************************************************************)

\* the path of the request in progress starts with a configured excludePaths entry
RequestPathExcluded ==
  /\ pc # "idle"
  /\ config.excludePaths # << >>
  /\ \E i \in 1..Len(config.excludePaths[1]) :
       \/ config.excludePaths[1][i] = url.pathname
       \/ <<url.pathname, config.excludePaths[1][i]>> \in
            { <<"/public/page", "/public">>, <<"/publication", "/public">>,
              <<"/aoh/api/auth/callback", "/aoh/api/auth/">> }

\* C33: for a request whose path starts with one of the configured
\* excludePaths, handle resolves the request and does nothing else: neither
\* authenticator is called, no store client is created, no cookie is read
\* through an adapter, and no cookie is set or deleted.
C33_ExcludedPathsBypassAuthentication ==
  RequestPathExcluded =>
    /\ handler = "handle"
    /\ hook = << "resolve" >>
    /\ calls = << >>
    /\ cookies = EmptyMap
    /\ ops = << >>
    /\ result = Returned

\* a callback URL under an excluded prefix is resolved without authentication
C33_Witness ==
  /\ RequestPathExcluded
  /\ url.pathname = "/aoh/api/auth/callback"
  /\ isOidcCallback(url)
  /\ config.strategy = "sds"
  /\ hook = << "resolve" >>

(***************************************************************************)
(* C34                                                                     *)
(***************************************************************************)

\* the authenticator has thrown because the code exchange was rejected with
\* unauthorized_client
FatalExchangeError ==
  /\ handler \in {"authenticate", "authenticateWithSds"}
  /\ pc = "thrown"
  /\ result = Thrown("Invalid client credentials")
  /\ \E i \in CallsOf("authorizationCodeGrant") :
       i = Len(replies) /\ replies[i] = Rejected("unauthorized_client")

\* C34: when authenticate or authenticateWithSds throws because the exchange
\* was rejected with unauthorized_client, the call has set and deleted no
\* cookie, has not asked the store for an auth session, and the step that
\* throws leaves the store as it was: cookies and store are as before the call.
C34_FatalErrorLeavesCookiesAndStore ==
  [][ FatalExchangeError' =>
        /\ ops' = << >>
        /\ \A i \in 1..Len(calls') :
             calls'[i].fn \in {"tempSessionGet", "authorizationCodeGrant"}
        /\ store' = store ]_vars

\* the store-backed callback threw with the verifier taken from the store
C34_Witness ==
  /\ FatalExchangeError
  /\ handler = "authenticateWithSds"
  /\ calls[1].fn = "tempSessionGet"
  /\ CookieGet("aoh_temp_session_id") = "ts1"
  /\ "ts1" \in DOMAIN store.temp

\* the cookie-backed callback threw with the verifier cookie still untouched
C34_CookieWitness ==
  /\ FatalExchangeError
  /\ handler = "authenticate"
  /\ CookieGet("aoh_code_verifier") = "v1"
  /\ ops = << >>

(***************************************************************************)
(* C35                                                                     *)
(***************************************************************************)

\* C35: whatever the cookies, the URL and the provider's answers, a refresh
\* or an exchange that gives an undecodable access token included, a
\* cookie-backed authenticate that has ended has returned Success or Fail,
\* or has thrown the fatal error of an exchange rejected with
\* unauthorized_client; nothing else reaches its caller.
C35_OnlyFatalErrorEscapes ==
  (handler = "authenticate" /\ pc \in {"done", "thrown"}) =>
    /\ pc = "done" => result.kind \in {"Success", "Fail"}
    /\ pc = "thrown" => FatalExchangeError

\* what holds of the callback path alone: an exchanged token that does not
\* decode ends in Fail
C35_CallbackPathRecovers ==
  (/\ handler = "authenticate"
   /\ pc \in {"done", "thrown"}
   /\ CallsOf("refreshTokenGrant") = {}) =>
    /\ pc = "done" => result.kind \in {"Success", "Fail"}
    /\ pc = "thrown" => FatalExchangeError

(***************************************************************************)
(* C36                                                                     *)
(***************************************************************************)

\* cookie-backed authenticate returned Success after its refresh resolved
RefreshSucceeded ==
  /\ CookieStrategy
  /\ pc = "done"
  /\ result.kind = "Success"
  /\ \E i \in CallsOf("refreshTokenGrant") : ResolvedAt(i)

\* the last operation the call issued on the cookie name sets it to value
LastSetTo(name, value) ==
  \E i \in 1..Len(ops) :
    /\ ops[i] = [op |-> "set", name |-> name, value |-> value, options |-> ops[i].options]
    /\ \A j \in (i + 1)..Len(ops) : ops[j].name # name

\* C36: after cookie-backed authenticate has returned Success through the
\* refresh path, it has set the access-token cookie to the access token of
\* the Success result, whether or not the refresh response carried an expiry.
C36_RefreshedTokenReachesCookie ==
  RefreshSucceeded => LastSetTo("aoh_access_token", result.accessToken)

\* what the code does: the cookie is set to the refreshed token when the
\* response carries a non-zero expiry, and is left alone otherwise
C36_RefreshedTokenReachesCookieIfExpiry ==
  RefreshSucceeded =>
    IF TruthyNumber(tokenSet.expires_in)
    THEN LastSetTo("aoh_access_token", result.accessToken)
    ELSE \A i \in 1..Len(ops) : ops[i].name # "aoh_access_token"

(***************************************************************************)
(* C40                                                                     *)
(***************************************************************************)

\* the exchange of a store-backed callback resolved and the store then
\* refused to create the auth session
AuthSessionNewFailed ==
  /\ SdsStrategy
  /\ \E i \in CallsOf("authorizationCodeGrant") : ResolvedAt(i)
  /\ \E i \in CallsOf("authSessionNew") : RejectedAt(i)

\* C40: when the code exchange succeeded and creating the auth session
\* failed, authenticateWithSds has returned Fail and has not thrown, has
\* deleted the auth-session and the temp-session cookie, and has set no
\* auth-session cookie.
C40_SessionCreationFailureGivesFail ==
  AuthSessionNewFailed =>
    /\ pc = "done"
    /\ result = AuthResultFail
    /\ DeletedExpired("aoh_auth_session_id")
    /\ DeletedExpired("aoh_temp_session_id")
    /\ \A i \in 1..Len(ops) : ops[i].op = "delete"
    /\ Len(ops) = 2

\* the store refused the session of a decodable token
C40_Witness ==
  /\ AuthSessionNewFailed
  /\ tokenSet.access_token = "hdr.u2.sig"
  /\ tokenSet.refresh_token = "rt2"
  /\ result = AuthResultFail
  /\ Len(ops) = 2

(***************************************************************************)
(* C37                                                                     *)
(***************************************************************************)

\* the cookie that leads to the PKCE verifier: the verifier itself, or the
\* id of the temp session that holds it
VerifierCookie ==
  IF config.strategy = "sds" THEN cookieNames.tempSessionId
  ELSE cookieNames.codeVerifier

\* request k of the browser was the login route and left the verifier
LoginStoredVerifier(k) ==
  /\ browser.log[k].handler = "login"
  /\ Truthy(browser.log[k].jar[VerifierCookie])

\* request j of the browser passed through handle with no credentials and
\* was no callback
PlainRequestWithoutCredentials(j) ==
  /\ browser.log[j].handler \in {"authenticate", "authenticateWithSds"}
  /\ ~isOidcCallback(browser.log[j].url)
  /\ browser.log[j].cookies[cookieNames.accessToken] = Absent
  /\ browser.log[j].cookies[cookieNames.refreshToken] = Absent
  /\ browser.log[j].cookies[cookieNames.authSessionId] = Absent

\* the callback is being authenticated, and since the login the browser has
\* sent at most requests without credentials
CallbackAfterLogin ==
  /\ handler \in {"authenticate", "authenticateWithSds"}
  /\ isOidcCallback(url)
  /\ \E k \in 1..Len(browser.log) :
       /\ LoginStoredVerifier(k)
       /\ \A j \in (k + 1)..Len(browser.log) : PlainRequestWithoutCredentials(j)

\* C37: once the login route has stored the verifier, the callback request
\* still carries the cookie that leads to it, even if requests without
\* credentials of the same browser passed through handle in between.
C37_VerifierSurvivesToCallback ==
  CallbackAfterLogin => Truthy(cookies[VerifierCookie])

\* what the code does: the verifier reaches the callback when the callback
\* is the request that follows the login
C37_VerifierReachesImmediateCallback ==
  (CallbackAfterLogin /\ LoginStoredVerifier(Len(browser.log)))
    => Truthy(cookies[VerifierCookie])

(***************************************************************************)
(* C38                                                                     *)
(***************************************************************************)

\* the last request the browser sent
LastRequest == browser.log[Len(browser.log)]

\* the token set the code exchange of the last request resolved with
ExchangedTokens ==
  LET e == LastRequest
      i == CHOOSE i \in 1..Len(e.calls) : e.calls[i].fn = "authorizationCodeGrant"
  IN  e.replies[i].tokens

\* the last request was a cookie-backed callback whose code exchange
\* resolved with an access token (one that decodes), a refresh token and
\* an expiry
SessionEstablished ==
  /\ browser.log # << >>
  /\ LastRequest.handler = "authenticate"
  /\ isOidcCallback(LastRequest.url)
  /\ \E i \in 1..Len(LastRequest.calls) :
       /\ LastRequest.calls[i].fn = "authorizationCodeGrant"
       /\ LastRequest.replies[i].kind = "resolved"
  /\ Truthy(ExchangedTokens.access_token)
  /\ jwtDecode(ExchangedTokens.access_token).ok
  /\ Truthy(ExchangedTokens.refresh_token)
  /\ ExchangedTokens.expires_in # NoNumber

\* the request that follows has been authenticated, and the provider
\* rejected no access token
NextRequestValidated ==
  /\ CookieStrategy
  /\ pc \in {"done", "thrown"}
  /\ \A i \in CallsOf("fetchUserInfo") : ResolvedAt(i)

\* the request returned Success for the exchanged access token with neither
\* a refresh nor a code exchange
SameSessionContinues ==
  /\ pc = "done"
  /\ result.kind = "Success"
  /\ result.accessToken = ExchangedTokens.access_token
  /\ CallsOf("refreshTokenGrant") = {}
  /\ CallsOf("authorizationCodeGrant") = {}

C38_RoundTripWithNonZeroExpiry ==
  ( /\ SessionEstablished
    /\ TruthyNumber(ExchangedTokens.expires_in)
    /\ NextRequestValidated ) => SameSessionContinues

\* the round trip is taken: a session established, then validated
C38_RoundTripTaken ==
  /\ SessionEstablished
  /\ TruthyNumber(ExchangedTokens.expires_in)
  /\ NextRequestValidated
  /\ CallsOf("fetchUserInfo") # {}
  /\ SameSessionContinues

(***************************************************************************)
(* C39                                                                     *)
(***************************************************************************)

\* the request being served, as the log will record it
RequestInProgress ==
  [handler |-> handler, cookies |-> cookies, url |-> url, calls |-> calls,
   replies |-> replies, result |-> result, jar |-> browser.jar]

\* the requests of the browser so far, the one being served included
RequestsSoFar ==
  IF pc = "idle" THEN browser.log ELSE Append(browser.log, RequestInProgress)

\* the cookie-backed requests that passed the verifier v to the code exchange
ExchangesWith(v) ==
  { k \in 1..Len(RequestsSoFar) :
      /\ RequestsSoFar[k].handler = "authenticate"
      /\ \E i \in 1..Len(RequestsSoFar[k].calls) :
           /\ RequestsSoFar[k].calls[i].fn = "authorizationCodeGrant"
           /\ RequestsSoFar[k].calls[i].b = v }

\* the exchange of request k was rejected with the fatal error
FatallyRejected(k) ==
  \E i \in 1..Len(RequestsSoFar[k].calls) :
    /\ RequestsSoFar[k].calls[i].fn = "authorizationCodeGrant"
    /\ i <= Len(RequestsSoFar[k].replies)
    /\ RequestsSoFar[k].replies[i] = Rejected("unauthorized_client")

\* C39: over the cookie-backed requests of one browser, a code-verifier
\* cookie value is passed to the code exchange at most once, whatever the
\* outcome of that exchange.
C39_VerifierExchangedAtMostOnce ==
  \A v \in GeneratedVerifiers : Cardinality(ExchangesWith(v)) <= 1

\* what the code does: a verifier is passed again only after an exchange
\* that was rejected with the fatal error
C39_VerifierReusedOnlyAfterFatalError ==
  \A v \in GeneratedVerifiers :
    \A k \in ExchangesWith(v) :
      (\E later \in ExchangesWith(v) : later > k) => FatallyRejected(k)

\* an exchange that resolved, or failed otherwise, used the verifier up
C39_VerifierUsedUp ==
  \E v \in GeneratedVerifiers :
    \E k \in ExchangesWith(v) :
      /\ k < Len(browser.log)
      /\ ~FatallyRejected(k)
      /\ RequestsSoFar[k + 1].handler = "authenticate"
      /\ isOidcCallback(RequestsSoFar[k + 1].url)

====
